---- MODULE Spec2Model ----
(***************************************************************************)
(* Query authorization gateway of the forecast chatbot: the SQL validator, *)
(* the table-reference extractor, the role policy, the bounded executor    *)
(* and the request handlers that chain them.                               *)
(*                                                                         *)
(* SQL texts, role names and questions are strings; every string function  *)
(* of the Python code (lower, strip, count, startswith, the regular        *)
(* expressions) is computed character by character.                        *)
(***************************************************************************)
EXTENDS Naturals, Sequences, FiniteSets, TLC

(***************************************************************************)
(* Python string primitives.  A text is the sequence of its characters     *)
(* (one-character strings); T turns a string literal into a text and Str   *)
(* a text into a string.                                                   *)
(***************************************************************************)
T(str) == [i \in 1..Len(str) |-> SubSeq(str, i, i)]
RECURSIVE Str(_)
Str(t) == IF Len(t) = 0 THEN ""
          ELSE IF Len(t) = 1 THEN t[1]
          ELSE LET h == Len(t) \div 2
               IN  Str(SubSeq(t, 1, h)) \o Str(SubSeq(t, h + 1, Len(t)))

UPPER == T("ABCDEFGHIJKLMNOPQRSTUVWXYZ")
LOWER == T("abcdefghijklmnopqrstuvwxyz")
DIGITS == T("0123456789")
\* the space characters of str.strip() and of \s that the inputs use
SPACES == T(" \t")
\* identifier characters after lower(), in code-point order (for sorted())
ORDER == T("0123456789_abcdefghijklmnopqrstuvwxyz")

IndexIn(c, t) == IF \E i \in 1..Len(t) : t[i] = c
                 THEN CHOOSE i \in 1..Len(t) : t[i] = c
                 ELSE 0
CharsOf(t) == {t[i] : i \in 1..Len(t)}
SpaceChars == CharsOf(SPACES)
DigitChars == CharsOf(DIGITS)
UpperChars == CharsOf(UPPER)
AlphaChars == CharsOf(UPPER) \cup CharsOf(LOWER)
\* \w of the re module
WordChars == AlphaChars \cup DigitChars \cup {"_"}

IsSpace(c) == c \in SpaceChars
IsDigit(c) == c \in DigitChars
IsAlpha(c) == c \in AlphaChars
IsWordChar(c) == c \in WordChars

LowerOf == [c \in UpperChars |-> LOWER[IndexIn(c, UPPER)]]
LowerChar(c) == IF c \in UpperChars THEN LowerOf[c] ELSE c
\* str.lower()
Lower(s) == [i \in 1..Len(s) |-> LowerChar(s[i])]

StartsWith(s, p) == Len(p) <= Len(s) /\ SubSeq(s, 1, Len(p)) = p
EndsWith(s, p) == Len(p) <= Len(s) /\ SubSeq(s, Len(s) - Len(p) + 1, Len(s)) = p
\* p occurs in s at position i
OccursAt(s, p, i) ==
    /\ i >= 1
    /\ i + Len(p) - 1 <= Len(s)
    /\ \A j \in 1..Len(p) : s[i + j - 1] = p[j]
\* "p in s"
Contains(s, p) == \E i \in 1..(Len(s) + 1) : OccursAt(s, p, i)
\* s.find(p), 1-based; 0 when absent
Find(s, p) == IF Contains(s, p)
              THEN CHOOSE i \in 1..(Len(s) + 1) :
                      OccursAt(s, p, i) /\ \A j \in 1..(i - 1) : ~OccursAt(s, p, j)
              ELSE 0
\* s.count(c) for a one-character c
Count(s, c) == Cardinality({i \in 1..Len(s) : s[i] = c})

\* str.strip()
RECURSIVE LStrip(_)
LStrip(s) == IF Len(s) > 0 /\ IsSpace(s[1]) THEN LStrip(Tail(s)) ELSE s
RECURSIVE RStrip(_)
RStrip(s) == IF Len(s) > 0 /\ IsSpace(s[Len(s)]) THEN RStrip(SubSeq(s, 1, Len(s) - 1)) ELSE s
Strip(s) == RStrip(LStrip(s))

\* str(n) of a natural number
RECURSIVE ToStr(_)
ToStr(n) == IF n < 10 THEN <<DIGITS[n + 1]>>
            ELSE ToStr(n \div 10) \o <<DIGITS[(n % 10) + 1]>>

\* a < b for texts of ORDER characters, as sorted() compares them
RECURSIVE TextLess(_, _)
TextLess(a, b) ==
    IF Len(b) = 0 THEN FALSE
    ELSE IF Len(a) = 0 THEN TRUE
    ELSE IF a[1] = b[1] THEN TextLess(Tail(a), Tail(b))
    ELSE IndexIn(a[1], ORDER) < IndexIn(b[1], ORDER)
StrLess(a, b) == TextLess(T(a), T(b))

(***************************************************************************)
(* db.py: table-reference extractor.                                       *)
(***************************************************************************)
\* [A-Za-z_] and [A-Za-z0-9_] of the identifier pattern
IsIdentStart(c) == IsAlpha(c) \/ c = "_"
IsIdentChar(c) == IsWordChar(c)

\* \b before position i, where position i holds a word character
WordStartsAt(s, i) == i = 1 \/ ~IsWordChar(s[i - 1])
\* \b after position i, where position i holds a word character
WordEndsAt(s, i) == i = Len(s) \/ ~IsWordChar(s[i + 1])

\* first position >= i that holds no space character (Len(s)+1 when none)
RECURSIVE SkipSpaces(_, _)
SkipSpaces(s, i) == IF i <= Len(s) /\ IsSpace(s[i]) THEN SkipSpaces(s, i + 1) ELSE i
\* first position >= i that holds no identifier character
RECURSIVE SkipIdent(_, _)
SkipIdent(s, i) == IF i <= Len(s) /\ IsIdentChar(s[i]) THEN SkipIdent(s, i + 1) ELSE i

FROM == T("from")
JOIN == T("join")

\* \b(?:from|join)\s+([A-Za-z_][A-Za-z0-9_]*) matches at position i of s, whose
\* lower-cased text is low (re.IGNORECASE)
FromJoinMatchAt(s, low, i) ==
    /\ low[i] \in {"f", "j"}
    /\ OccursAt(low, FROM, i) \/ OccursAt(low, JOIN, i)
    /\ WordStartsAt(s, i)
    /\ i + 4 <= Len(s)
    /\ IsSpace(s[i + 4])
    /\ SkipSpaces(s, i + 4) <= Len(s)
    /\ IsIdentStart(s[SkipSpaces(s, i + 4)])

\* re.finditer: the matches from left to right, each search resuming where the
\* previous match ended; the set of m.group(1).lower()
RECURSIVE FromJoinNames(_, _, _)
FromJoinNames(s, low, i) ==
    IF i > Len(s) THEN {}
    ELSE IF FromJoinMatchAt(s, low, i)
         THEN LET b == SkipSpaces(s, i + 4)
                  e == SkipIdent(s, b)
              IN  {Str(SubSeq(low, b, e - 1))} \cup FromJoinNames(s, low, e)
         ELSE FromJoinNames(s, low, i + 1)

known == <<"meter_table", "customer_table", "revenue_data">>

\* re.search(rf"\b{k}\b", sql, re.IGNORECASE), low the lower-cased sql
KnownTableOccurs(s, low, k) ==
    LET kt == T(k)
    IN  \E i \in 1..Len(s) :
            /\ low[i] = kt[1]
            /\ OccursAt(low, kt, i)
            /\ WordStartsAt(s, i)
            /\ WordEndsAt(s, i + Len(kt) - 1)

\* sorted(set): the least element first
RECURSIVE Sorted(_)
Sorted(S) == IF S = {} THEN <<>>
             ELSE LET m == CHOOSE a \in S : \A b \in S \ {a} : StrLess(a, b)
                  IN  <<m>> \o Sorted(S \ {m})

\* lines 41-61, low the lower-cased sql
TablesIn(sql, low) ==
    Sorted(FromJoinNames(sql, low, 1)
           \cup {known[k] : k \in {j \in 1..Len(known) : KnownTableOccurs(sql, low, known[j])}})

_extract_table_names(sql) == TablesIn(sql, Lower(sql))

(***************************************************************************)
(* db.py: statement validator.                                             *)
(***************************************************************************)
forbidden == <<T("drop "), T("delete "), T("update "), T("insert "), T("alter "),
               T("attach "), T("detach "), T("vacuum"), T("pragma"), T("--"), T("/*"),
               T("sqlite_master")>>

\* a validator that looks for the keywords first
RuleHitKeywordFirst(sql, low) ==
    IF \E k \in 1..Len(forbidden) : Contains(low, forbidden[k]) THEN "forbidden"
    ELSE IF Count(sql, ";") > 1 THEN "multi"
    ELSE "none"

\* the return statement _is_safe_statement leaves by, low the lower-cased sql
RuleHit(sql, low) ==
    IF Count(sql, ";") > 1 THEN "multi"
    ELSE IF \E k \in 1..Len(forbidden) : Contains(low, forbidden[k]) THEN "forbidden"
    ELSE "none"

RejectRule(sql) == RuleHit(sql, Lower(sql))

\* a validator that lets every statement through
AlwaysSafe(sql) == TRUE

_is_safe_statement(sql) == RejectRule(sql) = "none"

(***************************************************************************)
(* security.py: role policy.                                               *)
(***************************************************************************)
\* an optional string: None, or Some(v) for the string v
None == {}
Some(v) == {v}
\* "role or ''"
OrEmpty(o) == IF o = None THEN "" ELSE CHOOSE v \in o : TRUE
\* "{role}" inside an f-string
Fmt(o) == IF o = None THEN "None" ELSE CHOOSE v \in o : TRUE

\* security.py 5-9: the module-level dict, as the service holds it while it runs
VARIABLE ROLE_TABLES
\* the dict as the module body builds it at import
StartupRoleTables == [admin |-> <<"meter_table", "customer_table", "revenue_data">>,
                      planner |-> <<"meter_table", "customer_table">>]

\* a policy that looks the role up as it is spelled
AllowedExactCase(role) ==
    IF OrEmpty(role) \in DOMAIN ROLE_TABLES THEN ROLE_TABLES[OrEmpty(role)] ELSE <<>>

allowed_tables_for_role(role) ==
    LET r == Str(Lower(T(OrEmpty(role))))
    IN  IF r \in DOMAIN ROLE_TABLES THEN ROLE_TABLES[r] ELSE <<>>

extract_table_names(sql) == _extract_table_names(sql)

\* the calls a request made are a list of <<callee, it returned normally>>
Called(cs, name) == \E k \in 1..Len(cs) : cs[k][1] = name
Returned(cs, name) == \E k \in 1..Len(cs) : cs[k] = <<name, TRUE>>

\* "t in list"
InList(t, list) == \E k \in 1..Len(list) : list[k] = t

(***************************************************************************)
(* The SQLite store as the executor sees it.  A behaviour of the store for *)
(* one statement: the call of the transaction that raises ("none" when no  *)
(* call does), the number of rows the statement matches, the text of the   *)
(* exception.  sqlite3.connect itself is taken not to raise.               *)
(***************************************************************************)
\* the calls inside the try block of secure_run_query, in order
TryCalls == <<"BEGIN", "execute", "fetchall", "commit">>

LIMIT == T("limit")

\* position i of s lies outside every '...' string literal
OutsideLiteral(s, i) == Cardinality({j \in 1..(i - 1) : s[j] = "'"}) % 2 = 0

\* the keyword LIMIT occurs in the statement, outside its string literals
LimitKeywordIn(s, low) ==
    \E i \in 1..Len(s) :
        /\ low[i] = "l"
        /\ OccursAt(low, LIMIT, i)
        /\ WordStartsAt(s, i)
        /\ WordEndsAt(s, i + 4)
        /\ OutsideLiteral(s, i)
HasLimitClause(s) == LimitKeywordIn(s, Lower(s))

\* the statement text ends with a LIMIT <digits> clause (before an optional ';')
RECURSIVE DigitsBefore(_, _)
DigitsBefore(s, i) == IF i >= 1 /\ IsDigit(s[i]) THEN DigitsBefore(s, i - 1) ELSE i
RECURSIVE ParseNat(_)
ParseNat(d) == IF Len(d) = 0 THEN 0
               ELSE 10 * ParseNat(SubSeq(d, 1, Len(d) - 1)) + (IndexIn(d[Len(d)], DIGITS) - 1)
\* t without a final ';'
DropSemicolon(t) == IF EndsWith(t, T(";")) THEN RStrip(SubSeq(t, 1, Len(t) - 1)) ELSE t
StatementBody(q) == DropSemicolon(Strip(q))
\* the body b, whose digits start after position d, ends with LIMIT <digits>
EndsWithLimit(b, d) ==
    /\ d < Len(b)
    /\ d >= 1 /\ IsSpace(b[d])
    /\ EndsWith(Lower(RStrip(SubSeq(b, 1, d))), LIMIT)
    /\ WordStartsAt(b, Len(RStrip(SubSeq(b, 1, d))) - 4)
LimitOfBody(b) == ParseNat(SubSeq(b, DigitsBefore(b, Len(b)) + 1, Len(b)))
HasTrailingLimit(q) == EndsWithLimit(StatementBody(q), DigitsBefore(StatementBody(q), Len(StatementBody(q))))
TrailingLimit(q) == LimitOfBody(StatementBody(q))

\* the rows handed back for a statement body b that matches n rows
RowsOfBody(b, n) ==
    IF EndsWithLimit(b, DigitsBefore(b, Len(b))) /\ LimitOfBody(b) < n THEN LimitOfBody(b) ELSE n
\* cur.execute(q); cur.fetchall(): the number of rows SQLite hands back for q when q
\* matches n rows
FetchAll(q, n) == RowsOfBody(StatementBody(q), n)

(***************************************************************************)
(* db.py: bounded executor.                                                *)
(***************************************************************************)
SELECT == T("select")

\* line 93, low the lower-cased statement: the statement gets the cap appended
CapCondition(low) ==
    StartsWith(low, SELECT) /\ ~Contains(low, T(" limit ")) /\ ~EndsWith(low, LIMIT)
NeedsCap(q) == CapCondition(Lower(q))

\* lines 93-96 for the stripped statement q
Capped(q, max_rows) ==
    IF NeedsCap(q)
    THEN (IF EndsWith(q, T(";")) THEN SubSeq(q, 1, Len(q) - 1) ELSE q)
         \o T(" LIMIT ") \o ToStr(max_rows) \o T(";")
    ELSE q

\* lines 91-96: the statement text handed to the store
CapQuery(sql, max_rows) == Capped(Strip(sql), max_rows)

\* tokens the executor's loop passes over (line 102)
ExecutorSkip == {"", ",", "select", "from", "where", "join", "on", "group", "by", "order"}

\* re.match(r"[a-zA-Z0-9_]+\(|'|\"", t) (line 105)
LooksLikeCall(t) ==
    LET tt == T(t)
    IN  \/ Len(tt) > 0 /\ tt[1] \in {"'", "\""}
        \/ /\ Len(tt) > 0 /\ IsWordChar(tt[1])
           /\ SkipIdent(tt, 1) <= Len(tt)
           /\ tt[SkipIdent(tt, 1)] = "("

\* lines 101-108: the first table of the loop that returns, as <<t>>; <<>> when none does
RECURSIVE FirstUnauthorized(_, _)
FirstUnauthorized(tables, role_allowed_tables) ==
    IF tables = <<>> THEN <<>>
    ELSE LET t == Head(tables)
         IN  IF t \in ExecutorSkip THEN FirstUnauthorized(Tail(tables), role_allowed_tables)
             ELSE IF LooksLikeCall(t) THEN FirstUnauthorized(Tail(tables), role_allowed_tables)
             ELSE IF ~InList(t, role_allowed_tables) THEN <<t>>
             ELSE FirstUnauthorized(Tail(tables), role_allowed_tables)

\* lines 110-123: connect, the try block up to the call that raises, the except
\* handler, the finally block; each entry is <<call, it returned normally>>
TryBlock(store) ==
    LET last == IF store.fail = "none" THEN Len(TryCalls)
                ELSE CHOOSE k \in 1..Len(TryCalls) : TryCalls[k] = store.fail
    IN  [k \in 1..last |-> <<TryCalls[k], TryCalls[k] # store.fail>>]
\* an except handler that does not roll back
NoRollback(store) == <<>>
\* an except handler that rolls back and runs the statement once more
RetryAfterError(store) ==
    IF store.fail = "none" THEN <<>> ELSE << <<"rollback", TRUE>>, <<"execute", TRUE>> >>
ExceptBlock(store) == IF store.fail = "none" THEN <<>> ELSE << <<"rollback", TRUE>> >>
FinallyBlock(store) == << <<"close", TRUE>> >>
Transaction(store) ==
    << <<"connect", TRUE>> >> \o TryBlock(store) \o ExceptBlock(store) \o FinallyBlock(store)

DefaultMaxRows == 200
LegacyMaxRows == 50

\* lines 100-108 of secure_run_query: q the capped statement, bad the outcome of
\* the loop over the extracted tables
Authorize(q, bad) ==
    IF bad # <<>>
    THEN [admitted |-> FALSE,
          res |-> [error |-> "unauthorized_table_access: '" \o bad[1]
                             \o "' is not permitted for your role",
                   unauthorized_table |-> bad[1]],
          calls |-> << <<"_is_safe_statement", TRUE>>, <<"_extract_table_names", TRUE>> >>]
    ELSE [admitted |-> TRUE,
          q |-> q,
          calls |-> << <<"_is_safe_statement", TRUE>>, <<"_extract_table_names", TRUE>> >>]

\* lines 87-108: what secure_run_query settles before it reaches the store, the
\* failure it returns or the statement it will run
Admission(sql, role_allowed_tables, max_rows) ==
    IF ~_is_safe_statement(sql)
    THEN [admitted |-> FALSE,
          res |-> [error |-> "Unsafe or disallowed SQL statement detected."],
          calls |-> << <<"_is_safe_statement", TRUE>> >>]
    ELSE Authorize(CapQuery(sql, max_rows),
                   FirstUnauthorized(_extract_table_names(sql), role_allowed_tables))

\* lines 110-123 after the admission adm, against a store behaviour: the dict
\* returned, the text handed to the store, the calls made
Execute(adm, store) ==
    IF ~adm.admitted
    THEN [res |-> adm.res, q |-> <<>>, calls |-> adm.calls]
    ELSE [res |-> IF store.fail = "none"
                  THEN [rows |-> FetchAll(adm.q, store.n), columns |-> store.columns]
                  ELSE [error |-> store.msg],
          q |-> adm.q,
          calls |-> adm.calls \o Transaction(store)]

\* secure_run_query(sql, role_allowed_tables, max_rows) against a store behaviour
secure_run_query(sql, role_allowed_tables, max_rows, store) ==
    Execute(Admission(sql, role_allowed_tables, max_rows), store)

\* run_query(query, max_rows = 50): the legacy wrapper (lines 126-135)
run_query(query, store) ==
    secure_run_query(query, <<"meter_table", "customer_table", "revenue_data">>,
                     LegacyMaxRows, store)

(***************************************************************************)
(* chatbot_pipeline.py: the NL2SQL request pipeline.                       *)
(***************************************************************************)
\* any(... for g in greetings) of line 13
is_greeting(text) ==
    LET q == Lower(Strip(text))
        greetings == <<T("hi"), T("hello"), T("hey"), T("good morning"),
                       T("good afternoon"), T("good evening"), T("are you there"),
                       T("available")>>
    IN  \E k \in 1..Len(greetings) :
            \/ q = greetings[k]
            \/ StartsWith(q, greetings[k] \o T(" "))
            \/ EndsWith(q, T(" ") \o greetings[k])

classify_intent(question) ==
    LET q == Lower(question)
        forecast_keywords == <<T("forecast"), T("predict"), T("projection"), T("future"),
                               T("will be"), T("predict revenue"), T("forecast revenue")>>
    IN  IF \E k \in 1..Len(forecast_keywords) : Contains(q, forecast_keywords[k])
        THEN "python_model"
        ELSE "nl2sql"

decide_output_type(question) ==
    LET q == Lower(question)
    IN  IF \E w \in {T("plot"), T("graph"), T("chart"), T("trend"), T("over time"),
                     T("time series")} : Contains(q, w)
        THEN "graph"
        ELSE IF \E w \in {T("summary"), T("summarize"), T("explain"), T("what is"),
                          T("how many"), T("average"), T("max"), T("min")} : Contains(q, w)
        THEN "nl"
        ELSE "table"

SENTINEL == T("--CANNOT_CONVERT--")

\* a loop that also passes over the revenue table
PipelineSkipsRevenue == {"", "select", "from", "where", "join", "on", "revenue_data"}
\* tokens the pipeline's loop passes over (line 54)
PipelineSkip == {"", "select", "from", "where", "join", "on"}

\* lines 53-57: the first table of the loop that returns, as <<t>>; <<>> when none does
RECURSIVE FirstForbidden(_, _)
FirstForbidden(tables, allowed) ==
    IF tables = <<>> THEN <<>>
    ELSE LET t == Head(tables)
         IN  IF t \in PipelineSkip THEN FirstForbidden(Tail(tables), allowed)
             ELSE IF ~InList(t, allowed) THEN <<t>>
             ELSE FirstForbidden(Tail(tables), allowed)

\* dict.get(key) is truthy
Truthy(d, key) == key \in DOMAIN d /\ d[key] # ""

\* lines 62-80: res the dict secure_run_query returned
Respond(question, role, sql, res, summary) ==
    IF Truthy(res, "error")
    THEN IF StartsWith(T(res.error), T("unauthorized_table_access"))
            \/ Truthy(res, "unauthorized_table")
         THEN [error |-> "forbidden: role '" \o Fmt(role) \o "' cannot access table '"
                         \o (IF "unauthorized_table" \in DOMAIN res
                             THEN res.unauthorized_table ELSE "None") \o "'",
               status_code |-> 403]
         ELSE [error |-> res.error, status_code |-> 400]
    ELSE [question |-> Str(question),
          intent |-> "nl2sql",
          generated_sql |-> Str(sql),
          result |-> IF "rows" \in DOMAIN res THEN res.rows ELSE 0,
          columns |-> IF "columns" \in DOMAIN res THEN res.columns ELSE <<>>,
          ncols |-> Len(IF "columns" \in DOMAIN res THEN res.columns ELSE <<>>),
          output_type |-> decide_output_type(question),
          summary |-> summary]

\* lines 59-80: r what secure_run_query did
Executed(question, role, sql, r, summary) ==
    [out |-> Respond(question, role, sql, r.res, summary),
     q |-> r.q,
     calls |-> << <<"natural_to_sql", TRUE>>, <<"extract_table_names", TRUE>>,
                  <<"allowed_tables_for_role", TRUE>>, <<"secure_run_query", TRUE>> >>
               \o r.calls
               \o (IF Truthy(r.res, "error") THEN <<>>
                   ELSE << <<"decide_output_type", TRUE>>, <<"summarize_results", TRUE>> >>)]

\* lines 53-59: bad the outcome of the loop over the extracted tables
PreCheck(role, sql, bad) ==
    IF bad # <<>>
    THEN [reject |-> << [error |-> "forbidden: role '" \o Fmt(role)
                                   \o "' cannot access table '" \o bad[1] \o "'",
                         status_code |-> 403, table |-> bad[1]] >>,
          calls |-> << <<"natural_to_sql", TRUE>>, <<"extract_table_names", TRUE>>,
                       <<"allowed_tables_for_role", TRUE>> >>]
    ELSE [reject |-> <<>>,
          adm |-> Admission(sql, allowed_tables_for_role(role), DefaultMaxRows)]

\* lines 36-59: what handle_nl2sql settles before the executor reaches the store,
\* the failure it returns (as <<dict>>) or the executor's admission
Plan(role, sql) ==
    IF Len(sql) = 0 \/ StartsWith(sql, SENTINEL)
    THEN [reject |-> << [error |-> "Could not convert question to SQL",
                         status_code |-> 400] >>,
          calls |-> << <<"natural_to_sql", TRUE>> >>]
    ELSE IF Count(sql, ";") > 1
    THEN [reject |-> << [error |-> "Multiple statements are not allowed",
                         status_code |-> 400] >>,
          calls |-> << <<"natural_to_sql", TRUE>> >>]
    ELSE PreCheck(role, sql,
                  FirstForbidden(extract_table_names(sql), allowed_tables_for_role(role)))

\* lines 59-80 after the plan, against a store behaviour
Conclude(question, role, sql, plan, store, summary) ==
    IF plan.reject # <<>>
    THEN [out |-> plan.reject[1], q |-> <<>>, calls |-> plan.calls]
    ELSE Executed(question, role, sql, Execute(plan.adm, store), summary)

\* handle_nl2sql(question, role) with the collaborators' answers as inputs: sql is
\* what natural_to_sql returns, store how the store behaves, summary what
\* summarize_results returns.  The dict returned, the text handed to the store and
\* the calls made, in order.
handle_nl2sql(question, role, sql, store, summary) ==
    Conclude(question, role, sql, Plan(role, sql), store, summary)

\* a handler that adds the table it has just turned down to the list
GrantDenied(allowed, tables) == allowed \o FirstForbidden(tables, allowed)
\* lines 49-59: the list handle_nl2sql holds in `allowed` once it has looped over
\* the extracted tables and handed the list to secure_run_query: both only test
\* membership
AllowedAfter(allowed, tables) == allowed
\* ROLE_TABLES after handle_nl2sql(question, role), cs the calls it made:
\* allowed_tables_for_role returns the list stored under the role's key, not a
\* copy, so what the handler does to `allowed` it does to the policy
PolicyAfter(role, sql, cs) ==
    IF Called(cs, "allowed_tables_for_role")
       /\ Str(Lower(T(OrEmpty(role)))) \in DOMAIN ROLE_TABLES
    THEN [ROLE_TABLES EXCEPT ![Str(Lower(T(OrEmpty(role))))] =
              AllowedAfter(@, extract_table_names(sql))]
    ELSE ROLE_TABLES

(***************************************************************************)
(* auth.py and main.py: the /token endpoint.                               *)
(***************************************************************************)
USERS == [admin |-> [password |-> "admin123", role |-> "admin"],
          planner |-> [password |-> "planner123", role |-> "planner"]]
SECRET_KEY == "dev-secret-change-me"
\* auth.py 20-26
authenticate_user(username, password) ==
    IF username \notin DOMAIN USERS THEN None
    ELSE IF USERS[username].password # password THEN None
    ELSE Some([username |-> username, role |-> USERS[username].role])
\* auth.py 29-38: the claims of the token and the key that signs them (the
\* timestamps left out)
create_access_token(data) == [claims |-> data, key |-> SECRET_KEY]
\* main.py 27-33, user what authenticate_user returned
LoginReply(user) ==
    IF user = None
    THEN [status |-> 401, content |-> [error |-> "Invalid credentials"],
          calls |-> << <<"authenticate_user", TRUE>> >>]
    ELSE [status |-> 200,
          content |-> [access_token |->
                           create_access_token([sub |-> OrEmpty(user).username,
                                                role |-> OrEmpty(user).role]),
                       token_type |-> "bearer", role |-> OrEmpty(user).role],
          calls |-> << <<"authenticate_user", TRUE>>, <<"create_access_token", TRUE>> >>]
login(username, password) == LoginReply(authenticate_user(username, password))

(***************************************************************************)
(* main.py: the /chat endpoint.                                            *)
(***************************************************************************)
\* res.pop('status_code', 200)
Pop(d, key) == [k \in DOMAIN d \ {key} |-> d[k]]

\* lines 56-59: h what handle_nl2sql did
Reply(h) ==
    [status |-> IF "status_code" \in DOMAIN h.out THEN h.out.status_code ELSE 200,
     content |-> Pop(h.out, "status_code"),
     q |-> h.q,
     calls |-> << <<"is_greeting", TRUE>>, <<"classify_intent", TRUE>>,
                  <<"handle_nl2sql", TRUE>> >> \o h.calls]

\* lines 38-55: the branch the endpoint takes
Route(question) ==
    IF Len(question) = 0 THEN "422"
    ELSE IF is_greeting(question) THEN "greeting"
    ELSE IF classify_intent(question) = "python_model" THEN "python_model"
    ELSE "nl2sql"

\* the branch and, on the NL2SQL branch, the plan of handle_nl2sql
ChatPlan(route, role, sql) ==
    IF route = "nl2sql" THEN [route |-> route, plan |-> Plan(role, sql)]
    ELSE [route |-> route]

\* lines 37-59 after the plan cp, against a store behaviour
Answer(question, role, sql, cp, store, summary) ==
    IF cp.route = "422"
    THEN [status |-> 422, content |-> [error |-> "question required"],
          q |-> <<>>, calls |-> <<>>]
    ELSE IF cp.route = "greeting"
    THEN [status |-> 200,
          content |-> [question |-> Str(question), output_type |-> "nl",
                       summary |-> "Hi - I'm here and ready to help."],
          q |-> <<>>, calls |-> << <<"is_greeting", TRUE>> >>]
    ELSE IF cp.route = "python_model"
    THEN [status |-> 200,
          content |-> [question |-> Str(question), intent |-> "python_model",
                       output_type |-> "forecast",
                       summary |-> "Forecast (simulated) - model path bypasses DB entirely.",
                       result |-> 0],
          q |-> <<>>, calls |-> << <<"is_greeting", TRUE>>, <<"classify_intent", TRUE>> >>]
    ELSE Reply(Conclude(question, role, sql, cp.plan, store, summary))

chat_endpoint(question, role, sql, store, summary) ==
    Answer(question, role, sql, ChatPlan(Route(question), role, sql), store, summary)

(***************************************************************************)
(* nl2sql_pipeline.py (16-10): the NL2SQL pipeline of the cloud-LLM build,  *)
(* which normalises the generator's output before it looks at it.          *)
(***************************************************************************)
\* first position >= i of s that holds the character c (Len(s)+1 when none)
RECURSIVE NextChar(_, _, _)
NextChar(s, c, i) == IF i <= Len(s) /\ s[i] # c THEN NextChar(s, c, i + 1) ELSE i

\* ="([^"]+)" after optional spaces: a match of the pattern of line 43 starts at the
\* '=' that precedes position b, the first non-space position after it
QuotedValueAt(s, b) ==
    /\ b <= Len(s)
    /\ s[b] = "\""
    /\ NextChar(s, "\"", b + 1) <= Len(s)
    /\ NextChar(s, "\"", b + 1) > b + 1

\* lines 42-46: re.sub(r'=\s*"([^"]+)"', r"= '\1'", s) from position i on
RECURSIVE NormalizeQuotes(_, _)
NormalizeQuotes(s, i) ==
    IF i > Len(s) THEN <<>>
    ELSE IF s[i] = "=" /\ QuotedValueAt(s, SkipSpaces(s, i + 1))
    THEN T("= '")
         \o SubSeq(s, SkipSpaces(s, i + 1) + 1, NextChar(s, "\"", SkipSpaces(s, i + 1) + 1) - 1)
         \o T("'")
         \o NormalizeQuotes(s, NextChar(s, "\"", SkipSpaces(s, i + 1) + 1) + 1)
    ELSE <<s[i]>> \o NormalizeQuotes(s, i + 1)

\* s[idx:] for the 1-based position idx; s when idx = 0
From(s, idx) == IF idx = 0 THEN s ELSE SubSeq(s, idx, Len(s))
\* lines 51-54, low the lower-cased text
CutToSelect(s, low) == IF StartsWith(low, SELECT) THEN s ELSE From(s, Find(low, SELECT))
RemoveLeadingExplanation(s) == CutToSelect(s, Lower(s))

\* s.split(sep)[0]
Upto(s, idx) == IF idx = 0 THEN s ELSE SubSeq(s, 1, idx - 1)
SplitFirst(s, sep) == Upto(s, Find(s, sep))
\* lines 70-71
EnsureSemicolon(s) == IF EndsWith(s, T(";")) THEN s ELSE s \o T(";")

\* lines 112-121
CloudOutputType(ql) ==
    IF \E w \in {T("plot"), T("graph"), T("trend"), T("over time")} : Contains(ql, w)
    THEN "graph"
    ELSE IF \E w \in {T("summary"), T("explain"), T("average"), T("max"), T("min")} :
                Contains(ql, w)
    THEN "nl"
    ELSE "table"

\* lines 85-165: generated_sql the normalised statement, r what secure_run_query
\* did, output_type the route selected, image what render_graph_png returns
CloudRespond(question, generated_sql, r, output_type, summary, image) ==
    [out |-> IF Truthy(r.res, "error")
             THEN [question |-> Str(question), output_type |-> "nl",
                   summary |-> IF Contains(T(r.res.error), T("unauthorized_table_access"))
                               THEN "Access Denied: You do not have permission to access the requested data."
                               ELSE "Query failed: " \o r.res.error,
                   include_table |-> FALSE]
             ELSE IF output_type = "graph"
             THEN [question |-> Str(question), output_type |-> "graph",
                   generated_sql |-> Str(generated_sql), columns |-> r.res.columns,
                   result |-> r.res.rows, ncols |-> IF r.res.rows > 0 THEN Len(r.res.columns) ELSE 0,
                   image |-> image, summary |-> summary, include_table |-> FALSE]
             ELSE [question |-> Str(question), output_type |-> output_type,
                   generated_sql |-> Str(generated_sql), columns |-> r.res.columns,
                   result |-> r.res.rows, ncols |-> IF r.res.rows > 0 THEN Len(r.res.columns) ELSE 0,
                   summary |-> summary, include_table |-> TRUE],
     q |-> r.q,
     calls |-> << <<"natural_to_sql", TRUE>>, <<"allowed_tables_for_role", TRUE>>,
                  <<"secure_run_query", TRUE>> >>
               \o r.calls
               \o (IF Truthy(r.res, "error") THEN <<>>
                   ELSE << <<"summarize_results", TRUE>> >>
                        \o (IF output_type = "graph" THEN << <<"render_graph_png", TRUE>> >>
                            ELSE <<>>))]

\* lines 66-83: generated_sql the statement after lines 67-71
CloudAdmit(role, generated_sql) ==
    [refused |-> FALSE,
     generated_sql |-> generated_sql,
     adm |-> Admission(generated_sql, allowed_tables_for_role(role), DefaultMaxRows)]

\* lines 56-83: generated_sql the generator's output after lines 40-54
CloudPlan(role, generated_sql) ==
    IF StartsWith(generated_sql, SENTINEL) \/ Contains(generated_sql, SENTINEL)
    THEN [refused |-> TRUE]
    ELSE CloudAdmit(role, EnsureSemicolon(Strip(SplitFirst(generated_sql, T("--")))))

\* lines 57-165 after the plan cp, against a store behaviour
CloudConclude(question, cp, store, summary, image) ==
    IF cp.refused
    THEN [out |-> [question |-> Str(question), output_type |-> "nl",
                   summary |-> "I cannot answer this question because it might violate safety rules or is ambiguous.",
                   include_table |-> FALSE],
          q |-> <<>>,
          calls |-> << <<"natural_to_sql", TRUE>> >>]
    ELSE CloudRespond(question, cp.generated_sql, Execute(cp.adm, store),
                      CloudOutputType(Lower(question)), summary, image)

\* handle_nl2sql(question, role, schema, llm_mode) of the cloud-LLM build, with the
\* collaborators' answers as inputs
cloud_handle_nl2sql(question, role, sql, store, summary, image) ==
    CloudConclude(question,
                  CloudPlan(role, RemoveLeadingExplanation(NormalizeQuotes(Strip(sql), 1))),
                  store, summary, image)

(***************************************************************************)
(* nl2sql.py: the narrative summarizer.  answer is what run_llm does: it   *)
(* returns a text, returns nothing, or raises.                             *)
(***************************************************************************)
\* lines 180-185: the text run_llm returned, as summarize_results hands it on
CleanSummary(summary, low) ==
    IF StartsWith(low, T("summary:"))
    THEN Strip(SubSeq(summary, Len(T("summary:")) + 1, Len(summary)))
    ELSE summary

\* summarize_results(question, generated_sql, rows): rows is the number of rows
summarize_results(question, generated_sql, rows, answer) ==
    IF answer.kind = "raise" THEN "Could not summarize results: " \o answer.msg
    ELSE IF answer.kind = "none" \/ answer.text = "" THEN "No results found."
    ELSE Str(CleanSummary(Strip(T(answer.text)), Lower(Strip(T(answer.text)))))

(***************************************************************************)
(* chatbot_pipeline.py (19-12): the chart renderer.  A cell of a result    *)
(* row is None (SQL NULL) or Some(text), text being str() of its value.    *)
(***************************************************************************)
\* str(val) of a cell
CellStr(c) == IF c = None THEN "None" ELSE CHOOSE v \in c : TRUE

\* first position >= i of s that holds no digit
RECURSIVE SkipDigits(_, _)
SkipDigits(s, i) == IF i <= Len(s) /\ IsDigit(s[i]) THEN SkipDigits(s, i + 1) ELSE i

\* position behind the separator sep of a strptime format when it stands at
\* position i of s, 0 when it does not; a space of the format stands for \s+
BehindSeparator(s, sep, i) ==
    IF sep = T(" ")
    THEN (IF i <= Len(s) /\ IsSpace(s[i]) THEN SkipSpaces(s, i) ELSE 0)
    ELSE (IF OccursAt(s, sep, i) THEN i + Len(sep) ELSE 0)

\* the run in front of the runs that follow, <<>> when those do not match
ConsRun(run, rest) == IF rest = <<>> THEN <<>> ELSE <<run>> \o rest

\* the digit runs of s from position i on, separated by the texts of seps in this
\* order and reaching the end of s, as numbers paired with their lengths; <<>> when
\* s is not of this form.  j is the position behind the digits at i
RECURSIVE DigitRuns(_, _, _)
RunsBehind(s, i, j, seps) ==
    IF j = i THEN <<>>
    ELSE IF seps = <<>>
    THEN (IF j = Len(s) + 1 THEN << <<ParseNat(SubSeq(s, i, Len(s))), Len(s) + 1 - i>> >>
          ELSE <<>>)
    ELSE IF BehindSeparator(s, Head(seps), j) = 0 THEN <<>>
    ELSE ConsRun(<<ParseNat(SubSeq(s, i, j - 1)), j - i>>,
                 DigitRuns(s, BehindSeparator(s, Head(seps), j), Tail(seps)))
DigitRuns(s, i, seps) == RunsBehind(s, i, SkipDigits(s, i), seps)

IsLeapYear(y) == (y % 4 = 0 /\ y % 100 # 0) \/ y % 400 = 0
DaysInMonth(y, m) ==
    IF m = 2 THEN (IF IsLeapYear(y) THEN 29 ELSE 28)
    ELSE IF m \in {4, 6, 9, 11} THEN 30 ELSE 31

\* the directives of the formats: the length of the digit run and the range of the
\* number each accepts
Directive == [Y |-> [len |-> {4}, lo |-> 1, hi |-> 9999],
              m |-> [len |-> {1, 2}, lo |-> 1, hi |-> 12],
              d |-> [len |-> {1, 2}, lo |-> 1, hi |-> 31],
              H |-> [len |-> {1, 2}, lo |-> 0, hi |-> 23],
              M |-> [len |-> {1, 2}, lo |-> 0, hi |-> 59],
              S |-> [len |-> {1, 2}, lo |-> 0, hi |-> 59],
              W |-> [len |-> {1, 2}, lo |-> 0, hi |-> 53],
              w |-> [len |-> {1}, lo |-> 0, hi |-> 6]]

\* the runs fit the directives dirs and name a day of the calendar
RunsFit(runs, dirs) ==
    /\ Len(runs) = Len(dirs)
    /\ \A k \in 1..Len(dirs) :
          /\ runs[k][2] \in Directive[dirs[k]].len
          /\ runs[k][1] >= Directive[dirs[k]].lo
          /\ runs[k][1] <= Directive[dirs[k]].hi
    /\ Len(dirs) >= 3 /\ dirs[3] = "d" => runs[3][1] <= DaysInMonth(runs[1][1], runs[2][1])

\* the formats parse_datetime_safe tries, in order (lines 53-58 and 66)
DateFormats ==
    << [fmt |-> "%Y-%m-%d %H:%M:%S", dirs |-> <<"Y", "m", "d", "H", "M", "S">>,
        seps |-> <<T("-"), T("-"), T(" "), T(":"), T(":")>>, suffix |-> <<>>],
       [fmt |-> "%Y-%m-%d %H:%M", dirs |-> <<"Y", "m", "d", "H", "M">>,
        seps |-> <<T("-"), T("-"), T(" "), T(":")>>, suffix |-> <<>>],
       [fmt |-> "%Y-%m-%d", dirs |-> <<"Y", "m", "d">>,
        seps |-> <<T("-"), T("-")>>, suffix |-> <<>>],
       [fmt |-> "%Y-%m", dirs |-> <<"Y", "m">>, seps |-> <<T("-")>>, suffix |-> <<>>],
       [fmt |-> "%Y-W%W-%w", dirs |-> <<"Y", "W", "w">>,
        seps |-> <<T("-W"), T("-")>>, suffix |-> T("-1")] >>

\* datetime.strptime(s, fmt) returns
Strptime(s, f) == RunsFit(DigitRuns(s \o f.suffix, 1, f.seps), f.dirs)
\* the numbers of the runs
RunValues(runs) == [k \in 1..Len(runs) |-> runs[k][1]]

\* lines 59-70: the first format from the k-th on that parses s, 0 when none does
RECURSIVE FirstFormat(_, _)
FirstFormat(s, k) ==
    IF k > Len(DateFormats) THEN 0
    ELSE IF Strptime(s, DateFormats[k]) THEN k
    ELSE FirstFormat(s, k + 1)
\* what is returned when the k-th format parsed s first
DatetimeOf(s, k) ==
    IF k = 0 THEN None
    ELSE Some([fmt |-> DateFormats[k].fmt,
               fields |-> RunValues(DigitRuns(s \o DateFormats[k].suffix, 1,
                                              DateFormats[k].seps))])
\* parse_datetime_safe(val): None, or Some of the format that matched first and the
\* numbers it read, which determine the datetime returned
parse_datetime_safe(val) == DatetimeOf(T(CellStr(val)), FirstFormat(T(CellStr(val)), 1))

\* first position >= i of s behind a run of digits with single underscores between
\* them (i itself when no digit stands at i)
RECURSIVE SkipNumber(_, _)
SkipNumber(s, i) ==
    IF i <= Len(s) /\ IsDigit(s[i])
    THEN (IF i + 2 <= Len(s) /\ s[i + 1] = "_" /\ IsDigit(s[i + 2])
          THEN SkipNumber(s, i + 2)
          ELSE SkipNumber(s, i + 1))
    ELSE i
\* position behind an optional sign at position i
BehindSign(s, i) == IF i <= Len(s) /\ s[i] \in {"+", "-"} THEN i + 1 ELSE i
\* position behind the mantissa digits[.digits] or .digits that starts at i, 0 when
\* none does
BehindMantissa(s, i) ==
    IF SkipNumber(s, i) > i
    THEN (IF SkipNumber(s, i) <= Len(s) /\ s[SkipNumber(s, i)] = "."
          THEN SkipNumber(s, SkipNumber(s, i) + 1)
          ELSE SkipNumber(s, i))
    ELSE IF i <= Len(s) /\ s[i] = "." /\ SkipNumber(s, i + 1) > i + 1
    THEN SkipNumber(s, i + 1)
    ELSE 0
\* position behind an optional exponent at position i, 0 when an exponent starts
\* there and has no digits
BehindExponent(s, i) ==
    IF i <= Len(s) /\ s[i] \in {"e", "E"}
    THEN (IF SkipNumber(s, BehindSign(s, i + 1)) > BehindSign(s, i + 1)
          THEN SkipNumber(s, BehindSign(s, i + 1))
          ELSE 0)
    ELSE i
\* the text s, stripped, is a literal float() accepts
IsFloatLiteral(s) ==
    \/ Lower(SubSeq(s, BehindSign(s, 1), Len(s))) \in {T("inf"), T("infinity"), T("nan")}
    \/ /\ BehindMantissa(s, BehindSign(s, 1)) # 0
       /\ BehindExponent(s, BehindMantissa(s, BehindSign(s, 1))) = Len(s) + 1
\* float(val) returns (it raises for None and for any other text)
FloatReturns(val) == val # None /\ IsFloatLiteral(Strip(T(CellStr(val))))
\* float(val), written as the literal read
Float(val) == Str(Strip(T(CellStr(val))))

\* "x in c" for some x of the list
ContainsAny(c, list) == \E k \in 1..Len(list) : Contains(c, T(list[k]))
\* the least position of the set, dflt when the set is empty
FirstOf(positions, dflt) ==
    IF positions = {} THEN dflt ELSE CHOOSE i \in positions : \A j \in positions : i <= j

\* lines 77-91: the positions (from 1) of the datetime column and of the value
\* column; the value position 0 is Python's index -1
DatetimeColumn(columns) ==
    FirstOf({i \in 1..Len(columns) :
                ContainsAny(Lower(T(columns[i])), <<"date", "time">>)}, 1)
ValueColumn(columns) ==
    FirstOf({i \in 1..Len(columns) :
                ContainsAny(Lower(T(columns[i])), <<"load", "mw", "kwh", "revenue">>)},
            Len(columns))

\* r[idx] does not raise, and its value; pos is idx + 1
HasCell(r, pos) == IF pos = 0 THEN Len(r) > 0 ELSE pos <= Len(r)
CellAt(r, pos) == IF pos = 0 THEN r[Len(r)] ELSE r[pos]

\* a loop that keeps the rows whose value is not a number
AddsAnyValue(r, vpos, dt) == dt # None /\ HasCell(r, vpos)
\* lines 96-104: the row r adds a point, dt being what parse_datetime_safe returned
AddsPoint(r, vpos, dt) == dt # None /\ HasCell(r, vpos) /\ FloatReturns(CellAt(r, vpos))
PointOf(r, vpos, dt) == [date |-> dt, value |-> Float(CellAt(r, vpos))]
\* the point of the row r as a list, <<>> when it adds none
PointIf(r, vpos, dt) == IF AddsPoint(r, vpos, dt) THEN <<PointOf(r, vpos, dt)>> ELSE <<>>
RowPoint(r, dpos, vpos) ==
    IF ~HasCell(r, dpos) THEN <<>> ELSE PointIf(r, vpos, parse_datetime_safe(CellAt(r, dpos)))
\* lines 93-104: the (date, value) pairs of the rows lo..hi, in the order of the
\* rows (the loop over the rows, halved so that the nesting stays shallow)
RECURSIVE PointsFrom(_, _, _, _, _)
PointsFrom(rows, lo, hi, dpos, vpos) ==
    IF lo > hi THEN <<>>
    ELSE IF lo = hi THEN RowPoint(rows[lo], dpos, vpos)
    ELSE PointsFrom(rows, lo, (lo + hi) \div 2, dpos, vpos)
            \o PointsFrom(rows, (lo + hi) \div 2 + 1, hi, dpos, vpos)
Points(rows, columns) ==
    PointsFrom(rows, 1, Len(rows), DatetimeColumn(columns), ValueColumn(columns))

MAX_POINTS == 200
\* a stride that leaves out a last incomplete group
StrideWhole(series, step) ==
    [k \in 1..(Len(series) \div step) |-> series[(k - 1) * step + 1]]
\* series[::step]
Stride(series, step) ==
    [k \in 1..((Len(series) + step - 1) \div step) |-> series[(k - 1) * step + 1]]
\* lines 110-114
Downsample(series) ==
    IF Len(series) > MAX_POINTS THEN Stride(series, Len(series) \div MAX_POINTS) ELSE series

\* lines 106-133 for the points found: None, or Some of what is plotted, which
\* determines the PNG returned
Plot(points, columns) ==
    IF points = <<>> THEN None
    ELSE Some([series |-> Downsample(points), ylabel |-> CellAt(columns, ValueColumn(columns))])

\* render_graph_png(rows, columns)
render_graph_png(rows, columns) ==
    IF rows = <<>> THEN None ELSE Plot(Points(rows, columns), columns)

(***************************************************************************)
(* app.py and db.py (11-12): the /ask handler.  A result of the store is   *)
(* [error, rows, columns], error being None or Some(message).              *)
(***************************************************************************)
SCHEMA ==
    T("\nmeter_table (\n    id INTEGER PRIMARY KEY AUTOINCREMENT,\n    meter_id TEXT NOT NULL,\n    datetime TEXT NOT NULL,\n    forecasted_load_kwh REAL\n),\ncustomer_table (\n    customer_id TEXT,\n    customer_name TEXT,\n    email TEXT,\n    meter_id TEXT UNIQUE\n),\nRevenue_data (\n    Datetime TEXT,\n    Revenue REAL\n)\n")

LowerSchema == Lower(SCHEMA)

\* \s of the re module over the texts of this build
IsBlank(c) == c \in {" ", "\t", "\n"}
RECURSIVE SkipBlanks(_, _)
SkipBlanks(s, i) == IF i <= Len(s) /\ IsBlank(s[i]) THEN SkipBlanks(s, i + 1) ELSE i
\* first position >= i of s that holds the character c, Len(s) + 1 when none does
RECURSIVE UptoChar(_, _, _)
UptoChar(s, c, i) == IF i <= Len(s) /\ s[i] # c THEN UptoChar(s, c, i + 1) ELSE i

\* '([^']+)' matched at position j of s: the group as <<g>>, <<>> when it does not match
QuotedFrom(s, j) ==
    IF /\ j <= Len(s) /\ s[j] = "'"
       /\ UptoChar(s, "'", j + 1) > j + 1
       /\ UptoChar(s, "'", j + 1) <= Len(s)
    THEN <<SubSeq(s, j + 1, UptoChar(s, "'", j + 1) - 1)>>
    ELSE <<>>
AfterEquals(s, j) ==
    IF j <= Len(s) /\ s[j] = "=" THEN QuotedFrom(s, SkipBlanks(s, j + 1)) ELSE <<>>
\* name\s*=\s*'([^']+)' matched at position i of s
AssignedAt(s, name, i) ==
    IF OccursAt(s, name, i) THEN AfterEquals(s, SkipBlanks(s, i + Len(name))) ELSE <<>>
\* re.search(name\s*=\s*'([^']+)', s): the group of the first match
AssignedFirst(s, name, i) == IF i = 0 THEN <<>> ELSE AssignedAt(s, name, i)
Assigned(s, name) ==
    AssignedFirst(s, name, FirstOf({i \in 1..Len(s) : AssignedAt(s, name, i) # <<>>}, 0))
\* re.search(r"where\s+meter_id\s*=\s*'([^']+)'", s) (line 402)
WhereAssignedAt(s, i) ==
    IF OccursAt(s, T("where"), i) /\ SkipBlanks(s, i + 5) > i + 5
    THEN AssignedAt(s, T("meter_id"), SkipBlanks(s, i + 5))
    ELSE <<>>
WhereAssignedFirst(s, i) == IF i = 0 THEN <<>> ELSE WhereAssignedAt(s, i)
WhereAssigned(s) ==
    WhereAssignedFirst(s, FirstOf({i \in 1..Len(s) : WhereAssignedAt(s, i) # <<>>}, 0))

\* lines 331-343: the greeting test over question.strip().lower() (the dash of the
\* reply is written in ASCII)
greetings == <<"hi", "hello", "hey", "are you available", "are you there", "available",
               "good morning", "good evening", "good afternoon">>
\* len(s.split())
WordCount(s) ==
    Cardinality({i \in 1..Len(s) : ~IsBlank(s[i]) /\ (i = 1 \/ IsBlank(s[i - 1]))})
AskGreeting(q_lower) ==
    \E k \in 1..Len(greetings) :
        \/ q_lower = T(greetings[k])
        \/ StartsWith(q_lower, T(greetings[k]) \o T(" "))
        \/ EndsWith(q_lower, T(" ") \o T(greetings[k]))
        \/ Contains(q_lower, T(greetings[k])) /\ WordCount(q_lower) <= 3

\* lines 365-396: the statement after the customer lookup heuristic
JoinRewrite(cid, mid) ==
    IF cid # <<>>
    THEN T("SELECT c.customer_id, c.customer_name, c.email, c.meter_id FROM customer_table c WHERE c.customer_id = '")
            \o cid[1] \o T("';")
    ELSE IF mid # <<>>
    THEN T("SELECT c.customer_id, c.customer_name, c.email, m.datetime, m.forecasted_load_kwh FROM customer_table c LEFT JOIN meter_table m ON c.meter_id = m.meter_id WHERE c.meter_id = '")
            \o mid[1] \o T("';")
    ELSE T("SELECT c.customer_id, c.customer_name, c.email, m.datetime, m.forecasted_load_kwh FROM customer_table c LEFT JOIN meter_table m ON c.meter_id = m.meter_id LIMIT 200;")
JoinHeuristic(question, generated_sql) ==
    IF /\ Contains(Lower(question), T("customer")) \/ Contains(Lower(question), T("email"))
       /\ ~Contains(Lower(generated_sql), T("customer_table"))
    THEN JoinRewrite(Assigned(Lower(generated_sql), T("customer_id")),
                     Assigned(Lower(generated_sql), T("meter_id")))
    ELSE generated_sql

\* lines 399-408: the statement after the graph fallback
FallbackStatement(mid) ==
    T("SELECT id, meter_id, datetime, forecasted_load_kwh FROM meter_table")
        \o (IF mid # <<>> THEN T(" WHERE meter_id = '") \o mid[1] \o T("'") ELSE <<>>)
        \o T(";")
GraphFallback(output_type, generated_sql) ==
    IF /\ output_type = "graph"
       /\ \/ ~Contains(Lower(generated_sql), T("datetime"))
          \/ ~Contains(Lower(generated_sql), T("forecasted_load_kwh"))
    THEN FallbackStatement(WhereAssigned(Lower(generated_sql)))
    ELSE generated_sql

\* is_query_safe (lines 176-182)
AskForbidden == <<"drop ", "delete ", "update ", "alter ", "attach ", "detach ", "vacuum",
                  ";--", "--">>
NoForbidden(low) == \A k \in 1..Len(AskForbidden) : ~Contains(low, T(AskForbidden[k]))
is_query_safe(sql) == NoForbidden(Lower(sql))

\* db.py (11-12) run_query, lines 14-22: the statement handed to the store
AskStatement(query) == CapQuery(query, LegacyMaxRows)

\* datetime.fromisoformat(s) returns: YYYY-MM-DD, alone or followed by one character
\* and HH, HH:MM or HH:MM:SS (the forms every Python 3 accepts; no text of the
\* inputs has another ISO 8601 form)
TwoDigits(s, i) == i + 1 <= Len(s) /\ IsDigit(s[i]) /\ IsDigit(s[i + 1])
IsoDate(s) ==
    /\ Len(s) >= 10
    /\ TwoDigits(s, 1) /\ TwoDigits(s, 3) /\ s[5] = "-" /\ TwoDigits(s, 6)
    /\ s[8] = "-" /\ TwoDigits(s, 9)
    /\ ParseNat(SubSeq(s, 1, 4)) >= 1
    /\ ParseNat(SubSeq(s, 6, 7)) \in 1..12
    /\ ParseNat(SubSeq(s, 9, 10)) >= 1
    /\ ParseNat(SubSeq(s, 9, 10)) <= DaysInMonth(ParseNat(SubSeq(s, 1, 4)), ParseNat(SubSeq(s, 6, 7)))
IsoTime(t) ==
    /\ Len(t) \in {2, 5, 8}
    /\ TwoDigits(t, 1) /\ ParseNat(SubSeq(t, 1, 2)) <= 23
    /\ Len(t) >= 5 => t[3] = ":" /\ TwoDigits(t, 4) /\ ParseNat(SubSeq(t, 4, 5)) <= 59
    /\ Len(t) >= 8 => t[6] = ":" /\ TwoDigits(t, 7) /\ ParseNat(SubSeq(t, 7, 8)) <= 59
FromIsoFormat(s) ==
    IsoDate(s) /\ (Len(s) = 10 \/ (Len(s) >= 12 /\ IsoTime(SubSeq(s, 12, Len(s)))))

\* a column name of a date (lines 432, 508)
DateLike(col_l) == Contains(col_l, T("date")) \/ Contains(col_l, T("time"))

\* lines 426-441: needs_fix
ValS(val) == IF val = None THEN <<>> ELSE T(CellStr(val))
Suspect(col_l, val_s) ==
    /\ DateLike(col_l) \/ Contains(col_l, T("min")) \/ Contains(col_l, T("max"))
    /\ val_s # <<>>
    /\ ~FromIsoFormat(val_s)
    /\ \E c \in 1..Len(val_s) : IsAlpha(val_s[c])
NeedsFix(rows, col_names) ==
    /\ rows # <<>>
    /\ \E i \in 1..Len(rows[1]) :
          Suspect(IF i <= Len(col_names) THEN Lower(T(col_names[i])) ELSE <<>>, ValS(rows[1][i]))

\* re.search(r"from\s+([a-zA-Z0-9_]+)", generated_sql, re.IGNORECASE) (line 444)
FromTableAt(s, low, i) ==
    IF /\ OccursAt(low, T("from"), i)
       /\ SkipBlanks(s, i + 4) > i + 4
       /\ SkipIdent(s, SkipBlanks(s, i + 4)) > SkipBlanks(s, i + 4)
    THEN <<SubSeq(s, SkipBlanks(s, i + 4), SkipIdent(s, SkipBlanks(s, i + 4)) - 1)>>
    ELSE <<>>
FromTableFirst(s, low, i) == IF i = 0 THEN <<>> ELSE FromTableAt(s, low, i)
FromTableIn(s, low) ==
    FromTableFirst(s, low, FirstOf({i \in 1..Len(s) : FromTableAt(s, low, i) # <<>>}, 0))
FromTable(generated_sql) == FromTableIn(generated_sql, Lower(generated_sql))

\* re.search(rf"{table_name}\s*\((.*?)\)", SCHEMA, DOTALL | IGNORECASE) (line 449):
\* the positions of the group of the first match, <<>> when there is none
ColumnsPartAt(name, low, i) ==
    IF /\ OccursAt(LowerSchema, low, i)
       /\ SkipBlanks(SCHEMA, i + Len(name)) <= Len(SCHEMA)
       /\ SCHEMA[SkipBlanks(SCHEMA, i + Len(name))] = "("
       /\ UptoChar(SCHEMA, ")", SkipBlanks(SCHEMA, i + Len(name)) + 1) <= Len(SCHEMA)
    THEN <<SubSeq(SCHEMA, SkipBlanks(SCHEMA, i + Len(name)) + 1,
                  UptoChar(SCHEMA, ")", SkipBlanks(SCHEMA, i + Len(name)) + 1) - 1)>>
    ELSE <<>>
ColumnsPartFirst(name, low, i) == IF i = 0 THEN <<>> ELSE ColumnsPartAt(name, low, i)
ColumnsPartIn(name, low) ==
    ColumnsPartFirst(name, low,
                     FirstOf({i \in 1..Len(SCHEMA) : ColumnsPartAt(name, low, i) # <<>>}, 0))
ColumnsPart(name) == ColumnsPartIn(name, Lower(name))
\* lines 452-457: a word of cols_part followed by \s+TEXT whose name holds date or
\* time starts at position i
DateTextColumnAt(cols, i) ==
    /\ IsWordChar(cols[i])
    /\ i = 1 \/ ~IsWordChar(cols[i - 1])
    /\ SkipBlanks(cols, SkipIdent(cols, i)) > SkipIdent(cols, i)
    /\ OccursAt(cols, T("TEXT"), SkipBlanks(cols, SkipIdent(cols, i)))
    /\ DateLike(Lower(SubSeq(cols, i, SkipIdent(cols, i) - 1)))
DateTextColumnFirst(cols, i) ==
    IF i = 0 THEN <<>> ELSE <<SubSeq(cols, i, SkipIdent(cols, i) - 1)>>
DateTextColumn(cols) ==
    DateTextColumnFirst(cols, FirstOf({i \in 1..Len(cols) : DateTextColumnAt(cols, i)}, 0))
SchemaDateColumn(part) == IF part = <<>> THEN <<>> ELSE DateTextColumn(part[1])
\* lines 446-463: dt_col
DtColOr(found, generated_sql) ==
    IF found # <<>> THEN found[1]
    ELSE IF Contains(Lower(generated_sql), T("datetime")) THEN T("datetime")
    ELSE T("Datetime")
DtCol(table_name, generated_sql) ==
    DtColOr(SchemaDateColumn(ColumnsPart(table_name)), generated_sql)
\* line 467: fix_q
FixQ(dt_col, table_name) ==
    T("SELECT MIN(") \o dt_col \o T("), MAX(") \o dt_col \o T(") FROM ") \o table_name
        \o T(" WHERE ") \o dt_col \o T(" GLOB '[0-9]*';")
\* lines 423-475: the statement of the second run_query as <<fix_q>>, <<>> when
\* there is none
FixQueryFor(generated_sql, m_tab) ==
    IF m_tab = <<>> THEN <<>> ELSE <<FixQ(DtCol(m_tab[1], generated_sql), m_tab[1])>>
HasMinMax(low) == Contains(low, T("min(")) \/ Contains(low, T("max("))
FixQuery(generated_sql, first) ==
    IF NeedsFix(first.rows, first.columns) /\ HasMinMax(Lower(generated_sql))
    THEN FixQueryFor(generated_sql, FromTable(generated_sql))
    ELSE <<>>

\* lines 501-532: the positions (from 1) of the date column and of the value column
LastOf(positions, dflt) ==
    IF positions = {} THEN dflt ELSE CHOOSE i \in positions : \A j \in positions : j <= i
\* lines 516-524: the first i with i < len(col_names) whose row i parses at cell i
DiagonalDate(rows, col_names) ==
    FirstOf({i \in 1..Len(rows) :
                /\ i <= Len(col_names) /\ i <= Len(rows[i])
                /\ FromIsoFormat(T(CellStr(rows[i][i])))}, 1)
AskDatetimeColumn(rows, col_names) ==
    LastOf({i \in 1..Len(col_names) : DateLike(Lower(T(col_names[i])))},
           DiagonalDate(rows, col_names))
AskValueColumn(col_names) ==
    LastOf({i \in 1..Len(col_names) :
               ContainsAny(Lower(T(col_names[i])), <<"load", "mw", "kwh">>)},
           IF Len(col_names) > 0 THEN Len(col_names) ELSE 2)
\* lines 535-541: the row r adds a date, and adds a value (the date is appended
\* before float() is called)
AddsDate(r, dpos) == dpos <= Len(r) /\ FromIsoFormat(T(CellStr(r[dpos])))
AddsValue(r, dpos, vpos) == AddsDate(r, dpos) /\ vpos <= Len(r) /\ FloatReturns(r[vpos])
RowsThat(rows, Adds) == {k \in 1..Len(rows) : Adds[k]}
\* the k-th least index of the set
RECURSIVE Nth(_, _)
Nth(indices, k) ==
    IF k = 1 THEN FirstOf(indices, 0) ELSE Nth(indices \ {FirstOf(indices, 0)}, k - 1)
AskDates(rows, dpos) ==
    [k \in 1..Cardinality(RowsThat(rows, [j \in 1..Len(rows) |-> AddsDate(rows[j], dpos)])) |->
        CellStr(rows[Nth(RowsThat(rows, [j \in 1..Len(rows) |-> AddsDate(rows[j], dpos)]), k)][dpos])]
AskValues(rows, dpos, vpos) ==
    [k \in 1..Cardinality(RowsThat(rows, [j \in 1..Len(rows) |-> AddsValue(rows[j], dpos, vpos)])) |->
        Float(rows[Nth(RowsThat(rows, [j \in 1..Len(rows) |-> AddsValue(rows[j], dpos, vpos)]), k)][vpos])]
\* lines 554-559: both lists with the stride of the dates
DownsampleBy(series, n) ==
    IF n > MAX_POINTS THEN Stride(series, n \div MAX_POINTS) ELSE series
\* lines 543-592 for the dates and values found: no image, the image of what is
\* plotted, or the exception plt.plot raises for lists of different lengths
AskPlot(dates, values) ==
    IF dates = <<>> \/ values = <<>> THEN [raised |-> FALSE, image |-> None]
    ELSE IF Len(DownsampleBy(dates, Len(dates))) # Len(DownsampleBy(values, Len(dates)))
    THEN [raised |-> TRUE]
    ELSE [raised |-> FALSE,
          image |-> Some([dates |-> DownsampleBy(dates, Len(dates)),
                          values |-> DownsampleBy(values, Len(dates)),
                          ylabel |-> "Load (kWh)"])]
\* lines 489-592
AskGraph(rows, col_names) ==
    IF rows = <<>> THEN [raised |-> FALSE, image |-> None]
    ELSE AskPlot(AskDates(rows, AskDatetimeColumn(rows, col_names)),
                 AskValues(rows, AskDatetimeColumn(rows, col_names), AskValueColumn(col_names)))

\* lines 477-616: the response for the rows and columns res
GraphResponse(generated_sql, res, g, statements) ==
    IF g.raised
    THEN [status |-> 500, error |-> "Graph rendering failed",
          generated_sql |-> Str(generated_sql), statements |-> statements]
    ELSE [status |-> 200, output_type |-> "graph", generated_sql |-> Str(generated_sql),
          result |-> res.rows, columns |-> res.columns,
          image |-> g.image, statements |-> statements]
AskRespond(question, output_type, generated_sql, res, summary, statements) ==
    IF output_type = "graph"
    THEN GraphResponse(generated_sql, res, AskGraph(res.rows, res.columns), statements)
    ELSE [status |-> 200, output_type |-> "nl", generated_sql |-> Str(generated_sql),
          result |-> res.rows, columns |-> res.columns, summary |-> summary,
          include_table |-> TRUE, statements |-> statements]
\* lines 413-475 for the statement that is executed: first and fix are the results
\* of the store for it and for fix_q
AskFixed(question, output_type, generated_sql, first, fix, summary, fix_q) ==
    IF fix_q = <<>>
    THEN AskRespond(question, output_type, generated_sql, first, summary,
                    <<Str(AskStatement(generated_sql))>>)
    ELSE AskRespond(question, output_type, generated_sql,
                    IF fix.error # None THEN first ELSE fix, summary,
                    <<Str(AskStatement(generated_sql)), Str(AskStatement(fix_q[1]))>>)
AskExecute(question, output_type, generated_sql, first, fix, summary) ==
    IF first.error # None
    THEN [status |-> 400, error |-> OrEmpty(first.error),
          generated_sql |-> Str(generated_sql),
          statements |-> <<Str(AskStatement(generated_sql))>>]
    ELSE AskFixed(question, output_type, generated_sql, first, fix, summary,
                  FixQuery(generated_sql, first))
\* lines 410-415
AskCheck(question, output_type, generated_sql, first, fix, summary) ==
    IF ~is_query_safe(generated_sql)
    THEN [status |-> 400, error |-> "Generated SQL is not allowed for safety.",
          statements |-> <<>>]
    ELSE AskExecute(question, output_type, generated_sql, first, fix, summary)
\* the statement that is checked and executed (lines 358-408)
AskRewritten(question, output_type, generated_sql) ==
    GraphFallback(output_type, JoinHeuristic(question, generated_sql))

\* ask: intent and output_type are the answers of classify_intent and of
\* decide_output_type, forecast of forecast_revenue_from_model, generated_sql of
\* natural_to_sql
ask(question, intent, forecast, output_type, generated_sql, first, fix, summary) ==
    IF question = <<>>
    THEN [status |-> 422, error |-> "question required", statements |-> <<>>]
    ELSE IF AskGreeting(Lower(Strip(question)))
    THEN [status |-> 200, output_type |-> "nl", generated_sql |-> "", result |-> <<>>,
          summary |-> "Hi - I'm here and ready to help. Ask me about the data or request a graph.",
          include_table |-> FALSE, statements |-> <<>>]
    ELSE IF intent = "python_model"
    THEN [status |-> 200, output_type |-> forecast, statements |-> <<>>]
    ELSE IF StartsWith(generated_sql, T("--CANNOT_CONVERT--"))
    THEN [status |-> 400, error |-> "Could not convert question to SQL",
          detail |-> Str(generated_sql), statements |-> <<>>]
    ELSE AskCheck(question, output_type,
                  AskRewritten(question, output_type, generated_sql), first, fix, summary)

\* handle_nl2sql of the cloud-LLM build for a store that holds rows: the image is
\* what render_graph_png returns for the rows fetched (lines 131-151)
FetchedRows(h, rows) == SubSeq(rows, 1, h.out.result)
CloudImage(h, rows, columns) ==
    IF "image" \in DOMAIN h.out THEN render_graph_png(FetchedRows(h, rows), columns) ELSE None
cloud_handle_chart(question, role, sql, store, rows, summary) ==
    cloud_handle_nl2sql(question, role, sql, store, summary,
                        CloudImage(cloud_handle_nl2sql(question, role, sql, store, summary, None),
                                   rows, store.columns))

(***************************************************************************)
(* main.py of the cloud-LLM build with forecast_pipeline.py: the /chat     *)
(* endpoint that routes a question to the greeting, to the forecast model  *)
(* or to the NL2SQL pipeline.                                              *)
(***************************************************************************)
\* chatbot_pipeline.py (19-12) lines 15-18
cloud_is_greeting(qn) ==
    LET low == Strip(Lower(qn))
        gs == <<"hi", "hello", "hey", "good morning", "good evening">>
    IN  \E k \in 1..Len(gs) : low = T(gs[k]) \/ StartsWith(low, T(gs[k]) \o T(" "))
\* chatbot_pipeline.py (19-12) lines 21-27, its pictographs left out
greeting_response ==
    "Hello! How may I help you?\n* Ask about customers or meters\n* View load or revenue trends\n* Forecast future revenue"
\* chatbot_pipeline.py (19-12) lines 31-35
cloud_classify_intent(qn) ==
    IF ContainsAny(Lower(qn), <<"forecast", "predict", "projection", "future">>)
    THEN "python_model"
    ELSE "nl2sql"

\* forecast_pipeline.py 78-94: the units of the pattern, each with an optional s
HorizonUnits == <<"year", "month", "week", "day", "hour">>
UnitAt(low, u) ==
    IF \E k \in 1..Len(HorizonUnits) : OccursAt(low, T(HorizonUnits[k]), u)
    THEN HorizonUnits[CHOOSE k \in 1..Len(HorizonUnits) : OccursAt(low, T(HorizonUnits[k]), u)]
    ELSE ""
\* next\s+(\d+)\s*(unit) matches at position i of low; b is the position behind
\* the spaces after "next"
HorizonFrom(low, i, b) ==
    /\ OccursAt(low, T("next"), i)
    /\ b > i + 4
    /\ SkipDigits(low, b) > b
    /\ UnitAt(low, SkipBlanks(low, SkipDigits(low, b))) # ""
HorizonAt(low, i) == HorizonFrom(low, i, SkipBlanks(low, i + 4))
HorizonOf(qty, unit) ==
    IF unit = "year" THEN qty * 12
    ELSE IF unit = "week" THEN qty * 4
    ELSE qty
HorizonIn(low, b) ==
    HorizonOf(ParseNat(SubSeq(low, b, SkipDigits(low, b) - 1)),
              UnitAt(low, SkipBlanks(low, SkipDigits(low, b))))
HorizonFirst(low, i, default) ==
    IF i = 0 THEN default ELSE HorizonIn(low, SkipBlanks(low, i + 4))
parse_horizon(question, default) ==
    HorizonFirst(Lower(question),
                 FirstOf({i \in 1..Len(question) : HorizonAt(Lower(question), i)}, 0),
                 default)

AccessDenied == "Access Denied: You do not have permission to access revenue forecasts."
\* lines 200-211: the frequency detected from the usable revenue rows
Frequency(fc) == IF fc.rows < 2 THEN "MS" ELSE fc.freq
\* lines 279-297: the summary; run_llm answers or raises
ForecastSummary(horizon, fc) ==
    IF fc.llm_raises
    THEN "Forecasted revenue for next " \o Str(ToStr(horizon)) \o " periods from "
         \o fc.anchor \o ". Total: " \o fc.total
    ELSE Str(Strip(T(fc.llm)))
\* lines 188-299, horizon being parse_horizon(question, default=12): fc says how
\* many usable rows Revenue_data holds, their spacing, the anchor date found in
\* the question, the total of the predictions and what run_llm does
Forecast(question, horizon, fc) ==
    IF fc.rows = 0
    THEN [out |-> [output_type |-> "error", summary |-> "No historical revenue data found.",
                   error |-> "No historical revenue data found."],
          calls |-> << <<"allowed_tables_for_role", TRUE>>, <<"os.path.exists", TRUE>>,
                       <<"parse_horizon", TRUE>>, <<"load_revenue_data", TRUE>> >>]
    ELSE [out |-> [question |-> Str(question), intent |-> "python_model",
                   output_type |-> "forecast", horizon |-> horizon,
                   frequency |-> Frequency(fc),
                   columns |-> <<"Datetime", "Predicted_Revenue">>, ncols |-> 2,
                   result |-> horizon, summary |-> ForecastSummary(horizon, fc),
                   include_table |-> TRUE],
          calls |-> << <<"allowed_tables_for_role", TRUE>>, <<"os.path.exists", TRUE>>,
                       <<"parse_horizon", TRUE>>, <<"load_revenue_data", TRUE>>,
                       <<"joblib.load", TRUE>>, <<"model.predict", TRUE>>,
                       <<"run_llm", ~fc.llm_raises>> >>]
\* a forecast_revenue that reads the revenue rows before it looks at the role
ForecastLoadsFirst(question, role, fc) ==
    IF ~InList("revenue_data", allowed_tables_for_role(role))
    THEN [out |-> [output_type |-> "error", summary |-> AccessDenied, error |-> AccessDenied],
          calls |-> << <<"load_revenue_data", TRUE>>, <<"allowed_tables_for_role", TRUE>> >>]
    ELSE Forecast(question, parse_horizon(question, 12), fc)
\* forecast_revenue(question, role, llm_mode), lines 165-299; result is the number
\* of forecast rows
forecast_revenue(question, role, fc) ==
    IF ~InList("revenue_data", allowed_tables_for_role(role))
    THEN [out |-> [output_type |-> "error", summary |-> AccessDenied, error |-> AccessDenied],
          calls |-> << <<"allowed_tables_for_role", TRUE>> >>]
    ELSE IF ~fc.model_exists
    THEN [out |-> [output_type |-> "error",
                   summary |-> "Revenue forecast model not found. Please train the model first.",
                   error |-> "Revenue forecast model not found. Train the model first."],
          calls |-> << <<"allowed_tables_for_role", TRUE>>, <<"os.path.exists", TRUE>> >>]
    ELSE Forecast(question, parse_horizon(question, 12), fc)

\* main.py 83-103: the branch the endpoint takes
CloudRoute(question) ==
    IF Len(question) = 0 THEN "422"
    ELSE IF cloud_is_greeting(question) THEN "greeting"
    ELSE IF cloud_classify_intent(question) = "python_model" THEN "python_model"
    ELSE "nl2sql"
\* main.py 101-103: f what forecast_revenue did
CloudForecastReply(f) ==
    [status |-> 200, content |-> f.out, q |-> <<>>,
     calls |-> << <<"is_greeting", TRUE>>, <<"classify_intent", TRUE>>,
                  <<"forecast_revenue", TRUE>> >> \o f.calls]
\* main.py 108-121: h what handle_nl2sql did
CloudPipelineReply(h) ==
    [status |-> 200, content |-> h.out, q |-> h.q,
     calls |-> << <<"is_greeting", TRUE>>, <<"classify_intent", TRUE>>,
                  <<"handle_nl2sql", TRUE>> >> \o h.calls]
\* chat_endpoint(body, token_payload) of main.py 75-121 with the collaborators'
\* answers as inputs
cloud_chat_endpoint(question, role, fc, sql, store, summary) ==
    IF CloudRoute(question) = "422"
    THEN [status |-> 422, content |-> [error |-> "question required"],
          q |-> <<>>, calls |-> <<>>]
    ELSE IF CloudRoute(question) = "greeting"
    THEN [status |-> 200,
          content |-> [question |-> Str(question), output_type |-> "nl",
                       summary |-> greeting_response],
          q |-> <<>>, calls |-> << <<"is_greeting", TRUE>> >>]
    ELSE IF CloudRoute(question) = "python_model"
    THEN CloudForecastReply(forecast_revenue(question, role, fc))
    ELSE CloudPipelineReply(cloud_handle_nl2sql(question, role, sql, store, summary, None))

(***************************************************************************)
(* Inputs.  The SQL generator is an untrusted producer of text: it returns *)
(* nothing, the refusal token, or a statement followed by at most          *)
(* MaxSuffixes further fragments, the refusal token possibly in front.     *)
(***************************************************************************)
MaxSuffixes == 2

Prefixes == {"", "--CANNOT_CONVERT--"}
Heads == {"", "SELECT * FROM meter_table", "SELECT * FROM Revenue_data",
          "SELECT * FROM \"sqlite_sequence\"", "DELETE FROM meter_table",
          "DROP\tTABLE meter_table"}
Suffixes == {";", "; DROP TABLE meter_table;", " WHERE meter_id='from b'",
             " WHERE meter_id='join on'", " WHERE meter_id<>' limit '", " LIMIT 5"}

RECURSIVE Concat(_)
Concat(ps) == IF ps = <<>> THEN "" ELSE Head(ps) \o Concat(Tail(ps))

GeneratedSql ==
    {p \o h \o Concat(ss) :
        p \in Prefixes, h \in Heads, ss \in UNION {[1..k -> Suffixes] : k \in 0..MaxSuffixes}}

\* what the cloud generator is seen to return besides: a diagnostic after the
\* refusal token, an explanation before the statement, a double-quoted value, a
\* trailing comment
CloudSql == GeneratedSql
            \cup {"--CANNOT_CONVERT-- (cannot select a table)",
                  "Here is the query: SELECT * FROM meter_table;",
                  " SELECT * FROM customer_table WHERE customer_id = \"C1\"",
                  "SELECT * FROM Revenue_data -- all rows"}

Roles == {Some("admin"), Some("planner"), Some("user")}

UpperOf == [c \in CharsOf(LOWER) |-> UPPER[IndexIn(c, LOWER)]]
\* the spellings of the text t in every mix of upper and lower case
RECURSIVE CaseVariants(_)
CaseVariants(t) ==
    IF Len(t) = 0 THEN {<<>>}
    ELSE {<<c>> \o v : c \in {t[1], UpperOf[t[1]]}, v \in CaseVariants(Tail(t))}
\* the role names the policy is asked about
RoleNames == {None, Some(""), Some("user"), Some("guest"), Some("planner "),
              Some("administrator")}
             \cup {Some(Str(v)) : v \in CaseVariants(T("admin")) \cup CaseVariants(T("planner"))}

Questions == {"", "hi", "forecast revenue", "revenue on 11-12-2015"}

\* questions put to the output-type classifier: up to MaxPhrases phrases, and the
\* questions of the scenarios
MaxPhrases == 2
Phrases == {"show", "Plot", "graph", "trend", "over time", "chart", "time series",
            "summary", "summarize", "explain", "what is", "how many", "average",
            "max", "min", "load", "meter X"}
RECURSIVE Join(_)
Join(ps) == IF Len(ps) = 1 THEN Head(ps) ELSE Head(ps) \o " " \o Join(Tail(ps))
ShapingQuestions ==
    {Join(ps) : ps \in UNION {[1..k -> Phrases] : k \in 1..MaxPhrases}}
    \cup {"show trend of load for meter X", "summarize revenue",
          "how many meters are there", "list all customers"}

\* result rows put to the chart renderer.  A row is a date cell and a value cell
\* of one of these kinds; the k-th row of a result carries the k-th minute of
\* 2024-01-01 and the value k.5
RowKinds == {"valid", "bad_date", "bad_value", "null"}
Pad2(n) == IF n < 10 THEN T("0") \o ToStr(n) ELSE ToStr(n)
DateCell(kind, k) ==
    IF kind \in {"valid", "bad_value"}
    THEN Some("2024-01-01 " \o Str(Pad2(k \div 60)) \o ":" \o Str(Pad2(k % 60)))
    ELSE IF kind = "bad_date" THEN Some("Datetime")
    ELSE None
ValueCell(kind, k) ==
    IF kind \in {"valid", "bad_date"} THEN Some(Str(ToStr(k)) \o ".5")
    ELSE IF kind = "bad_value" THEN Some("n/a")
    ELSE None
\* the rows of the given kinds, the date cell first
RowsOf(kinds) == [k \in 1..Len(kinds) |-> <<DateCell(kinds[k], k), ValueCell(kinds[k], k)>>]
\* results of valid rows only, up to MaxSeriesLen of them, of the lengths within
\* Margin of a multiple of MAX_POINTS, and results of up to MaxMixedRows rows of
\* any kind
MaxSeriesLen == 602
Margin == 2
MaxMixedRows == 3
SeriesLengths == {n \in 0..MaxSeriesLen :
                     n % MAX_POINTS <= Margin \/ n % MAX_POINTS >= MAX_POINTS - Margin}
SeriesKinds == {[k \in 1..n |-> "valid"] : n \in SeriesLengths}
MixedKinds == UNION {[1..n -> RowKinds] : n \in 0..MaxMixedRows}
\* the column names of a result; the cells of a row stand in the order date, value
ColumnLayouts == {<<"Datetime", "Revenue">>, <<"datetime", "forecasted_load_kwh">>,
                  <<"ts", "amount">>, <<"load_kwh", "reading_time">>}

\* results put to the choice of the chart axes: the column names, and rows whose
\* cells hold a date, a number or a name, the same in every row of a column
MaxAxisRows == 2
AxisColumns == {<<"Datetime", "Revenue">>, <<"meter_id", "reading_time", "load_kwh">>,
                <<"start_date", "end_date", "kwh">>, <<"bucket", "total">>,
                <<"load_kwh", "peak_mw", "note">>, <<"Datetime", "Revenue", "note">>,
                <<"name", "bucket", "total">>}
AxisCells == {Some("2024-01-01"), Some("1.5"), Some("M1")}
AxisRows(n) == UNION {{[k \in 1..m |-> r] : m \in 1..MaxAxisRows} : r \in [1..n -> AxisCells]}

\* cells put to parse_datetime_safe
DateCells == {Some("2024-01-01 10:20:30"), Some("2024-01-01 10:20"), Some("2024-01-01"),
              Some("2024-01"), Some("2024-W05"), Some("2024-1-5"), Some("2024-02-30"),
              Some("2024-13"), Some("2024-01-01T10:20:30"), Some("2024-01-01 10:20:30.5"),
              Some("2024-W54"), Some("2024-01-01 24:00"), Some("01-02-2024"),
              Some("Datetime"), Some("2024"), Some(""), None}

\* the /ask handler: questions, the answers of the language model, the statements
\* of the SQL generator
AskQuestions == {"", "hello there", "plot load of meter M1", "customer of meter M1",
                 "latest reading"}
Intents == {"nl2sql", "python_model"}
OutputTypes == {"graph", "table", "nl"}
Forecasts == {"forecast", "error"}
AskSql == {"--CANNOT_CONVERT--",
           "DROP TABLE meter_table;",
           "SELECT datetime, forecasted_load_kwh FROM meter_table WHERE meter_id = 'M1';",
           "SELECT MAX(datetime), forecasted_load_kwh FROM meter_table;",
           "SELECT MIN(Datetime) FROM Revenue_data;",
           "SELECT MIN(datetime), 'from update' FROM meter_table;",
           "SELECT customer_name FROM customer_table",
           "SELECT Datetime, Revenue FROM Revenue_data;"}
\* the store: the columns of the schema, and the names SQLite gives the result
\* columns of a statement (the text of an expression, the name of a column)
TableColumns == [meter_table |-> <<"id", "meter_id", "datetime", "forecasted_load_kwh">>,
                 customer_table |-> <<"customer_id", "customer_name", "email", "meter_id">>,
                 revenue_data |-> <<"Datetime", "Revenue">>]
RECURSIVE SplitOn(_, _)
SplitAt(s, c, i) ==
    IF i > Len(s) THEN <<s>>
    ELSE <<SubSeq(s, 1, i - 1)>> \o SplitOn(SubSeq(s, i + 1, Len(s)), c)
SplitOn(s, c) == SplitAt(s, c, UptoChar(s, c, 1))
LastItem(items) == items[Len(items)]
ColumnName(item) ==
    IF Contains(item, T("(")) THEN Str(item) ELSE Str(LastItem(SplitOn(item, ".")))
SelectList(q) == SubSeq(q, 8, Find(Lower(q), T(" from ")) - 1)
ItemColumns(items) == [k \in 1..Len(items) |-> ColumnName(Strip(items[k]))]
ListColumns(q, list) ==
    IF Strip(list) = T("*") THEN TableColumns[Str(Lower(FromTable(q)[1]))]
    ELSE ItemColumns(SplitOn(list, ","))
ResultColumns(q) == ListColumns(q, SelectList(q))
\* an aggregate statement returns one row
IsAggregate(q) == Contains(Lower(q), T("min(")) \/ Contains(Lower(q), T("max("))
\* rows of the given kinds under the given columns
CellFor(col_l, kind, k) ==
    IF DateLike(col_l) THEN DateCell(kind, k)
    ELSE IF ContainsAny(col_l, <<"load", "kwh", "revenue">>) THEN ValueCell(kind, k)
    ELSE Some("M" \o Str(ToStr(k)))
\* the cell of a result column that is a string literal: its text
LiteralCell(col) == Some(Str(SubSeq(col, 2, Len(col) - 1)))
AskCell(col, kind, k) ==
    IF StartsWith(col, T("'")) THEN LiteralCell(col) ELSE CellFor(Lower(col), kind, k)
AskRowsOf(columns, kinds) ==
    [k \in 1..Len(kinds) |-> [i \in 1..Len(columns) |-> AskCell(T(columns[i]), kinds[k], k)]]
\* the answers of the store to a statement: an error, or up to MaxAskRows rows
MaxAskRows == 2
AskKinds == UNION {[1..n -> RowKinds] : n \in 0..MaxAskRows}
NoResult == [error |-> None, rows |-> <<>>, columns |-> <<>>, kinds |-> <<>>]
StoreError == [error |-> Some("no such table: meter_table"), rows |-> <<>>, columns |-> <<>>,
               kinds |-> <<>>]
ResultWith(columns, kinds) ==
    [error |-> None, rows |-> AskRowsOf(columns, kinds), columns |-> columns, kinds |-> kinds]
ResultOf(q, kinds) == ResultWith(ResultColumns(q), kinds)
ResultsWith(columns, aggregate) ==
    {StoreError} \cup {ResultWith(columns, kinds) :
                         kinds \in {ks \in AskKinds : aggregate => Len(ks) = 1}}
AskResults(q) == ResultsWith(ResultColumns(q), IsAggregate(q))
\* the answers of the store to fix_q, whose GLOB keeps the values that start with
\* a digit
FixResultsWith(columns) ==
    {StoreError, ResultWith(columns, <<"valid">>), ResultWith(columns, <<"null">>)}
\* fix_q names a table of the schema
FixTableKnown(m_tab) == m_tab # <<>> /\ Str(Lower(m_tab[1])) \in DOMAIN TableColumns
FixResults(q) ==
    IF FixTableKnown(FromTable(q)) THEN FixResultsWith(ResultColumns(q)) ELSE {StoreError}
\* the requests of /ask that reach the store: the statement after the rewrites is safe
ReachesStore(question, intent, sql) ==
    /\ question # "" /\ ~AskGreeting(Lower(Strip(T(question)))) /\ intent = "nl2sql"
    /\ ~StartsWith(T(sql), T("--CANNOT_CONVERT--"))
ChartQuestions == {"show trend of revenue", "plot revenue over time"}

\* what run_llm does when asked for a summary
LlmAnswers == {[kind |-> "none"], [kind |-> "raise", msg |-> "connection refused"],
               [kind |-> "text", text |-> ""],
               [kind |-> "text", text |-> "No results found."],
               [kind |-> "text", text |-> " Summary: There is no revenue data. "],
               [kind |-> "text", text |-> "Total revenue is 0."]}
\* questions that ask for a narrative or a table
NarrativeQuestions == {"summarize revenue", "revenue summary", "show revenue"}

\* rows a statement may match: none, one, more than either row cap
RowCounts == {0, 1, DefaultMaxRows + 1}
Summaries == {"No results found.", "Revenue was 100.0 on 2015-12-11."}

StoreBehaviours ==
    {[fail |-> "none", n |-> n, columns |-> <<"Datetime", "Revenue">>, msg |-> ""] :
        n \in RowCounts}
    \cup {[fail |-> TryCalls[k], n |-> 0, columns |-> <<>>, msg |-> "database is locked"] :
            k \in 1..Len(TryCalls)}
\* a store that is never reached, a summarizer that is never asked
Unreached == [fail |-> "none", n |-> 0, columns |-> <<>>, msg |-> ""]
Unasked == ""


(***************************************************************************)
(* State.                                                                  *)
(***************************************************************************)
VARIABLES
    phase,   \* "idle" between requests, "done" when a request has been answered
    entry,   \* the entry point of the request: "chat", "executor", "legacy", "cloud",
             \* "policy"
    req,     \* the request's inputs and the collaborators' answers
    resp,    \* what the entry point returned
    calls,   \* the calls the request made, in order
    q,       \* the statement text handed to the store ("" when none was)
    conn,    \* the request's connection: "none", "open", "closed"
    txn,     \* the connection's transaction: "none", "active", "committed", "rolledback"
    db,      \* the SQLite file: the rows of its tables and the locks held on it
    run      \* the executor calls in flight, each with its own locals

vars == <<phase, entry, req, resp, calls, q, conn, txn, db, run, ROLE_TABLES>>

\* the connection and its transaction after a sequence of calls
RECURSIVE ConnAfter(_, _)
ConnAfter(c, cs) ==
    IF cs = <<>> THEN c
    ELSE ConnAfter(IF Head(cs) = <<"connect", TRUE>> THEN "open"
                   ELSE IF Head(cs) = <<"close", TRUE>> THEN "closed"
                   ELSE c, Tail(cs))
RECURSIVE TxnAfter(_, _)
TxnAfter(t, cs) ==
    IF cs = <<>> THEN t
    ELSE TxnAfter(IF Head(cs) = <<"connect", TRUE>> THEN "none"
                  ELSE IF Head(cs) = <<"BEGIN", TRUE>> THEN "active"
                  ELSE IF Head(cs) = <<"commit", TRUE>> /\ t = "active" THEN "committed"
                  ELSE IF Head(cs) = <<"rollback", TRUE>> /\ t = "active" THEN "rolledback"
                  ELSE IF Head(cs) = <<"close", TRUE>> /\ t = "active" THEN "rolledback"
                  ELSE t, Tail(cs))

(***************************************************************************)
(* The SQLite file behind DB_PATH and the executor calls in flight.  A     *)
(* table is the sequence of its rows, a row the sequence of its cells as   *)
(* texts; meter_table is AUTOINCREMENT, so SQLite keeps its last id in     *)
(* sqlite_sequence.                                                        *)
(***************************************************************************)
\* the values written into meter_id and datetime, and the id SQLite assigns
MeterRow(id, meter_id, datetime) == <<Str(ToStr(id)), meter_id, datetime, "NULL">>
SequenceRows(last) == IF last = 0 THEN <<>> ELSE << <<"meter_table", Str(ToStr(last))>> >>
\* init_db's tables (db.py 9-36) with one reading, one customer, one revenue row
InitialTables ==
    [meter_table |-> << MeterRow(1, "M1", "2024-01-01") >>,
     customer_table |-> << <<"C1", "Asha", "asha@example.com", "M1">> >>,
     revenue_data |-> << <<"2024-01-01", "10.5">> >>,
     sqlite_sequence |-> SequenceRows(1)]
\* readers: the calls holding a SHARED lock; writer: the call holding the RESERVED
\* lock (0 when none does)
InitialStore == [tables |-> InitialTables, readers |-> {}, writer |-> 0]

\* the requests the service handles at the same time
MaxRequests == 2
Requests == 1..MaxRequests
\* the locals of one secure_run_query call made for a request, before the call
IdleRun == [pc |-> "idle", role |-> None, allowed |-> <<>>, sql |-> "", q |-> "",
            conn |-> "none", txn |-> "none", saw |-> <<>>, rows |-> <<>>,
            columns |-> <<>>, msg |-> "", res |-> [status |-> 0]]

NoRequest == [question |-> "", role |-> None, sql |-> "", store |-> Unreached,
              summary |-> Unasked]

Init ==
    /\ phase = "idle"
    /\ entry = "none"
    /\ req = NoRequest
    /\ resp = [status |-> 0]
    /\ calls = <<>>
    /\ q = ""
    /\ conn = "none"
    /\ txn = "none"
    /\ db = InitialStore
    /\ run = [r \in Requests |-> IdleRun]
    /\ ROLE_TABLES = StartupRoleTables

\* the outcomes of POST /chat: every store behaviour and summary the request can
\* meet; probe is the request against a store that answers without rows
ChatOutcomesFrom(qt, role, st, cp, probe) ==
    IF ~Called(probe.calls, "connect")
    THEN {[store |-> Unreached, summary |-> Unasked, h |-> probe]}
    ELSE {[store |-> store, summary |-> su, h |-> Answer(qt, role, st, cp, store, su)] :
            store \in {b \in StoreBehaviours : b.fail = "none"}, su \in Summaries}
         \cup {[store |-> store, summary |-> Unasked,
                h |-> Answer(qt, role, st, cp, store, Unasked)] :
                 store \in {b \in StoreBehaviours : b.fail # "none"}}
ChatOutcomesOf(qt, role, st, cp) ==
    ChatOutcomesFrom(qt, role, st, cp, Answer(qt, role, st, cp, Unreached, Unasked))
ChatOutcomes(qt, role, st) == ChatOutcomesOf(qt, role, st, ChatPlan(Route(qt), role, st))

\* POST /chat
ChatRequest ==
    /\ phase = "idle"
    /\ \E question \in Questions, role \in Roles, sql \in GeneratedSql :
         /\ \/ T(question) # <<>> /\ ~is_greeting(T(question))
                  /\ classify_intent(T(question)) = "nl2sql"
            \/ sql = "" /\ role = Some("user")
         /\ \E o \in ChatOutcomes(T(question), role, T(sql)) :
              /\ phase' = "done"
              /\ entry' = "chat"
              /\ req' = [question |-> question, role |-> role, sql |-> sql,
                         store |-> o.store, summary |-> o.summary]
              /\ resp' = [status |-> o.h.status, content |-> o.h.content]
              /\ calls' = o.h.calls
              /\ q' = Str(o.h.q)
              /\ conn' = ConnAfter("none", o.h.calls)
              /\ txn' = TxnAfter("none", o.h.calls)
              /\ UNCHANGED <<db, run>>
              /\ ROLE_TABLES' = PolicyAfter(role, T(sql), o.h.calls)

\* the outcomes of secure_run_query after the admission adm
ExecutorOutcomesOf(adm) ==
    IF ~adm.admitted
    THEN {[store |-> Unreached, r |-> Execute(adm, Unreached)]}
    ELSE {[store |-> store, r |-> Execute(adm, store)] : store \in StoreBehaviours}
ExecutorOutcomes(st, allowed, max_rows) == ExecutorOutcomesOf(Admission(st, allowed, max_rows))

\* secure_run_query called directly with the role's allowed tables
ExecutorCall ==
    /\ phase = "idle"
    /\ \E role \in Roles, sql \in GeneratedSql :
         \E o \in ExecutorOutcomes(T(sql), allowed_tables_for_role(role), DefaultMaxRows) :
              /\ phase' = "done"
              /\ entry' = "executor"
              /\ req' = [question |-> "", role |-> role, sql |-> sql,
                         store |-> o.store, summary |-> Unasked]
              /\ resp' = o.r.res
              /\ calls' = o.r.calls
              /\ q' = Str(o.r.q)
              /\ conn' = ConnAfter("none", o.r.calls)
              /\ txn' = TxnAfter("none", o.r.calls)
              /\ UNCHANGED <<db, run, ROLE_TABLES>>

\* the legacy run_query wrapper
LegacyQuery ==
    /\ phase = "idle"
    /\ \E sql \in GeneratedSql :
         \E o \in ExecutorOutcomes(T(sql), <<"meter_table", "customer_table", "revenue_data">>,
                                   LegacyMaxRows) :
              /\ phase' = "done"
              /\ entry' = "legacy"
              /\ req' = [question |-> "", role |-> None, sql |-> sql,
                         store |-> o.store, summary |-> Unasked]
              /\ resp' = o.r.res
              /\ calls' = o.r.calls
              /\ q' = Str(o.r.q)
              /\ conn' = ConnAfter("none", o.r.calls)
              /\ txn' = TxnAfter("none", o.r.calls)
              /\ UNCHANGED <<db, run, ROLE_TABLES>>

CloudOutcomesFrom(qt, cp, probe) ==
    IF ~Called(probe.calls, "connect")
    THEN {[store |-> Unreached, summary |-> Unasked, h |-> probe]}
    ELSE {[store |-> store, summary |-> su, h |-> CloudConclude(qt, cp, store, su, None)] :
            store \in {b \in StoreBehaviours : b.fail = "none"}, su \in Summaries}
         \cup {[store |-> store, summary |-> Unasked,
                h |-> CloudConclude(qt, cp, store, Unasked, None)] :
                 store \in {b \in StoreBehaviours : b.fail # "none"}}
CloudOutcomesOf(qt, cp) == CloudOutcomesFrom(qt, cp, CloudConclude(qt, cp, Unreached, Unasked, None))
CloudOutcomes(qt, role, st) ==
    CloudOutcomesOf(qt, CloudPlan(role, RemoveLeadingExplanation(NormalizeQuotes(Strip(st), 1))))

\* the NL2SQL pipeline of the cloud-LLM build
CloudRequest ==
    /\ phase = "idle"
    /\ \E role \in Roles, sql \in CloudSql :
         \E o \in CloudOutcomes(T("revenue on 11-12-2015"), role, T(sql)) :
              /\ phase' = "done"
              /\ entry' = "cloud"
              /\ req' = [question |-> "revenue on 11-12-2015", role |-> role, sql |-> sql,
                         store |-> o.store, summary |-> o.summary]
              /\ resp' = o.h.out
              /\ calls' = o.h.calls
              /\ q' = Str(o.h.q)
              /\ conn' = ConnAfter("none", o.h.calls)
              /\ txn' = TxnAfter("none", o.h.calls)
              /\ UNCHANGED <<db, run, ROLE_TABLES>>

\* allowed_tables_for_role on its own
PolicyLookup ==
    /\ phase = "idle"
    /\ \E role \in RoleNames :
         /\ phase' = "done"
         /\ entry' = "policy"
         /\ req' = [question |-> "", role |-> role, sql |-> "", store |-> Unreached,
                    summary |-> Unasked]
         /\ resp' = [tables |-> allowed_tables_for_role(role)]
         /\ calls' = << <<"allowed_tables_for_role", TRUE>> >>
         /\ UNCHANGED <<q, conn, txn, db, run, ROLE_TABLES>>

\* _extract_table_names on its own
ExtractorCall ==
    /\ phase = "idle"
    /\ \E sql \in GeneratedSql :
         /\ phase' = "done"
         /\ entry' = "extractor"
         /\ req' = [question |-> "", role |-> None, sql |-> sql, store |-> Unreached,
                    summary |-> Unasked]
         /\ resp' = [tables |-> _extract_table_names(T(sql))]
         /\ calls' = << <<"_extract_table_names", TRUE>> >>
         /\ UNCHANGED <<q, conn, txn, db, run, ROLE_TABLES>>

\* decide_output_type on its own
DecideOutputType ==
    /\ phase = "idle"
    /\ \E question \in ShapingQuestions :
         /\ phase' = "done"
         /\ entry' = "decide_output_type"
         /\ req' = [question |-> question, role |-> None, sql |-> "", store |-> Unreached,
                    summary |-> Unasked]
         /\ resp' = [output_type |-> decide_output_type(T(question))]
         /\ calls' = << <<"decide_output_type", TRUE>> >>
         /\ UNCHANGED <<q, conn, txn, db, run, ROLE_TABLES>>

\* the output type decision of the cloud-LLM build on its own
CloudDecideOutputType ==
    /\ phase = "idle"
    /\ \E question \in ShapingQuestions :
         /\ phase' = "done"
         /\ entry' = "cloud_output_type"
         /\ req' = [question |-> question, role |-> None, sql |-> "", store |-> Unreached,
                    summary |-> Unasked]
         /\ resp' = [output_type |-> CloudOutputType(Lower(T(question)))]
         /\ calls' = <<>>
         /\ UNCHANGED <<q, conn, txn, db, run, ROLE_TABLES>>

\* handle_nl2sql for admin's statement over Revenue_data, summarize_results as in
\* nl2sql.py
NarrativeRequest ==
    /\ phase = "idle"
    /\ \E question \in NarrativeQuestions, n \in RowCounts, answer \in LlmAnswers :
         LET sql == "SELECT * FROM Revenue_data;"
             store == [fail |-> "none", n |-> n, columns |-> <<"Datetime", "Revenue">>,
                       msg |-> ""]
             summary == summarize_results(T(question), T(sql), n, answer)
             h == handle_nl2sql(T(question), Some("admin"), T(sql), store, summary)
         IN  /\ phase' = "done"
             /\ entry' = "narrative"
             /\ req' = [question |-> question, role |-> Some("admin"), sql |-> sql,
                        store |-> store, summary |-> summary, answer |-> answer]
             /\ resp' = h.out
             /\ calls' = h.calls
             /\ q' = Str(h.q)
             /\ conn' = ConnAfter("none", h.calls)
             /\ txn' = TxnAfter("none", h.calls)
             /\ UNCHANGED <<db, run, ROLE_TABLES>>

\* the same request through the pipeline of the cloud-LLM build
CloudNarrativeRequest ==
    /\ phase = "idle"
    /\ \E question \in NarrativeQuestions, n \in RowCounts, answer \in LlmAnswers :
         LET sql == "SELECT * FROM Revenue_data;"
             store == [fail |-> "none", n |-> n, columns |-> <<"Datetime", "Revenue">>,
                       msg |-> ""]
             summary == summarize_results(T(question), T(sql), n, answer)
             h == cloud_handle_nl2sql(T(question), Some("admin"), T(sql), store, summary, None)
         IN  /\ phase' = "done"
             /\ entry' = "cloud_narrative"
             /\ req' = [question |-> question, role |-> Some("admin"), sql |-> sql,
                        store |-> store, summary |-> summary, answer |-> answer]
             /\ resp' = h.out
             /\ calls' = h.calls
             /\ q' = Str(h.q)
             /\ conn' = ConnAfter("none", h.calls)
             /\ txn' = TxnAfter("none", h.calls)
             /\ UNCHANGED <<db, run, ROLE_TABLES>>

\* render_graph_png on its own
RenderGraph ==
    /\ phase = "idle"
    /\ \E kinds \in SeriesKinds \cup MixedKinds, columns \in ColumnLayouts :
         /\ Len(kinds) > MaxMixedRows => columns = <<"Datetime", "Revenue">>
         /\ phase' = "done"
         /\ entry' = "render_graph_png"
         /\ req' = [question |-> "", role |-> None, sql |-> "", store |-> Unreached,
                    summary |-> Unasked, kinds |-> kinds, rows |-> RowsOf(kinds),
                    columns |-> columns]
         /\ resp' = [image |-> render_graph_png(RowsOf(kinds), columns)]
         /\ calls' = << <<"render_graph_png", TRUE>> >>
         /\ UNCHANGED <<q, conn, txn, db, run, ROLE_TABLES>>

\* the choice of the axes at the head of render_graph_png (19-12, lines 76-91)
RenderAxes ==
    /\ phase = "idle"
    /\ \E columns \in AxisColumns : \E rows \in AxisRows(Len(columns)) :
         /\ phase' = "done"
         /\ entry' = "render_axes"
         /\ req' = [question |-> "", role |-> None, sql |-> "", store |-> Unreached,
                    summary |-> Unasked, rows |-> rows, columns |-> columns]
         /\ resp' = [datetime_idx |-> DatetimeColumn(columns) - 1,
                     value_idx |-> ValueColumn(columns) - 1]
         /\ calls' = << <<"render_graph_png", TRUE>> >>
         /\ UNCHANGED <<q, conn, txn, db, run, ROLE_TABLES>>

\* the choice of the axes in the chart branch of /ask (11-12, lines 504-532)
AskAxes ==
    /\ phase = "idle"
    /\ \E columns \in AxisColumns : \E rows \in AxisRows(Len(columns)) :
         /\ phase' = "done"
         /\ entry' = "ask_axes"
         /\ req' = [question |-> "", role |-> None, sql |-> "", store |-> Unreached,
                    summary |-> Unasked, rows |-> rows, columns |-> columns]
         /\ resp' = [datetime_idx |-> AskDatetimeColumn(rows, columns) - 1,
                     value_idx |-> AskValueColumn(columns) - 1]
         /\ calls' = << <<"ask", TRUE>> >>
         /\ UNCHANGED <<q, conn, txn, db, run, ROLE_TABLES>>

\* parse_datetime_safe on its own
ParseDatetime ==
    /\ phase = "idle"
    /\ \E val \in DateCells :
         /\ phase' = "done"
         /\ entry' = "parse_datetime_safe"
         /\ req' = [question |-> "", role |-> None, sql |-> "", store |-> Unreached,
                    summary |-> Unasked, val |-> val]
         /\ resp' = [datetime |-> parse_datetime_safe(val)]
         /\ calls' = << <<"parse_datetime_safe", TRUE>> >>
         /\ UNCHANGED <<q, conn, txn, db, run, ROLE_TABLES>>

\* POST /ask of the 11-12 build
AskAnswer(question, intent, forecast, output_type, sql, first, fix, summary) ==
    /\ phase' = "done"
    /\ entry' = "ask"
    /\ req' = [question |-> question, role |-> None, sql |-> sql, store |-> Unreached,
               summary |-> summary, intent |-> intent, output_type |-> output_type,
               first |-> first, fix |-> fix]
    /\ resp' = ask(T(question), intent, forecast, output_type, T(sql), first, fix, summary)
    /\ calls' = [k \in 1..Len(resp'.statements) |->
                    <<"run_query", (IF k = 1 THEN first ELSE fix).error = None>>]
    /\ UNCHANGED <<q, conn, txn, db, run, ROLE_TABLES>>
\* the answers of the store for the statements the request executes
AskFix(question, intent, forecast, output_type, sql, summary, first, fix_q) ==
    IF fix_q = <<>> \/ first.error # None
    THEN AskAnswer(question, intent, forecast, output_type, sql, first, NoResult, summary)
    ELSE \E fix \in FixResults(fix_q[1]) :
            AskAnswer(question, intent, forecast, output_type, sql, first, fix, summary)
AskStore(question, intent, forecast, output_type, sql, summary, stmt) ==
    IF is_query_safe(stmt)
    THEN \E first \in AskResults(stmt) :
            AskFix(question, intent, forecast, output_type, sql, summary, first,
                   FixQuery(stmt, first))
    ELSE AskAnswer(question, intent, forecast, output_type, sql, NoResult, NoResult, summary)
AskRequest ==
    /\ phase = "idle"
    /\ \E question \in AskQuestions, intent \in Intents, sql \in AskSql :
         IF ~ReachesStore(question, intent, sql)
         THEN \E forecast \in Forecasts :
                 AskAnswer(question, intent, forecast, "table", sql, NoResult, NoResult, Unasked)
         ELSE \E output_type \in OutputTypes, summary \in Summaries :
                 /\ output_type = "graph" => summary = "No results found."
                 /\ AskStore(question, intent, "forecast", output_type, sql, summary,
                             AskRewritten(T(question), output_type, T(sql)))

\* handle_nl2sql of the cloud-LLM build for a chart question
CloudChartAnswer(question, sql, store, kinds, h) ==
    /\ phase' = "done"
    /\ entry' = "cloud_chart"
    /\ req' = [question |-> question, role |-> Some("admin"), sql |-> sql,
               store |-> store, summary |-> "No results found.",
               kinds |-> kinds, rows |-> RowsOf(kinds), columns |-> store.columns]
    /\ resp' = h.out
    /\ calls' = h.calls
    /\ q' = Str(h.q)
    /\ conn' = ConnAfter("none", h.calls)
    /\ txn' = TxnAfter("none", h.calls)
    /\ UNCHANGED <<db, run, ROLE_TABLES>>
CloudChartStore(question, sql, store, kinds) ==
    CloudChartAnswer(question, sql, store, kinds,
                     cloud_handle_chart(T(question), Some("admin"), T(sql), store,
                                        RowsOf(kinds), "No results found."))
CloudChartRequest ==
    /\ phase = "idle"
    /\ \E question \in ChartQuestions, kinds \in MixedKinds, columns \in ColumnLayouts :
         CloudChartStore(question, "SELECT * FROM Revenue_data;",
                         [fail |-> "none", n |-> Len(kinds), columns |-> columns, msg |-> ""],
                         kinds)

\* the questions put to the /chat endpoint of the cloud-LLM build
CloudChatQuestions ==
    {"", "hello", "Hello forecast revenue", "forecast revenue for next 2 years",
     "predict revenue next 3 weeks", "what is the future load", "revenue on 11-12-2015",
     "total revenue", "how many meters next 6 months"}
CloudChatSql == {"--CANNOT_CONVERT--", "SELECT * FROM Revenue_data;",
                 "SELECT * FROM meter_table;"}
CallerRoles == Roles \cup {None, Some("Admin")}
NoForecast == [model_exists |-> FALSE, rows |-> 0, freq |-> "MS",
               anchor |-> "last available date", total |-> "0.00",
               llm_raises |-> FALSE, llm |-> ""]
\* the model file, the usable rows of Revenue_data, the predictions and run_llm
ForecastInputs ==
    {NoForecast,
     [NoForecast EXCEPT !.model_exists = TRUE],
     [NoForecast EXCEPT !.model_exists = TRUE, !.rows = 1, !.total = "1,234.50",
                        !.llm = " Revenue is expected to rise. "],
     [NoForecast EXCEPT !.model_exists = TRUE, !.rows = 2, !.freq = "h",
                        !.anchor = "2015-12-11", !.total = "1,234.50",
                        !.llm_raises = TRUE],
     [NoForecast EXCEPT !.model_exists = TRUE, !.rows = 2, !.freq = "D",
                        !.total = "99.00", !.llm = "About 99."]}

\* POST /chat of the cloud-LLM build answered with what the pipeline taken did
CloudChatAnswer(question, role, fc, sql, store, summary, h) ==
    /\ phase' = "done"
    /\ entry' = "cloud_chat"
    /\ req' = [question |-> question, role |-> role, sql |-> sql, store |-> store,
               summary |-> summary, forecast |-> fc]
    /\ resp' = [status |-> h.status, content |-> h.content]
    /\ calls' = h.calls
    /\ q' = Str(h.q)
    /\ conn' = ConnAfter("none", h.calls)
    /\ txn' = TxnAfter("none", h.calls)
    /\ UNCHANGED <<db, run, ROLE_TABLES>>
\* POST /chat of the cloud-LLM build: the questions that do not reach the NL2SQL
\* pipeline, then those that do (chart questions are CloudChartRequest's)
CloudChatRequest ==
    /\ phase = "idle"
    /\ \E question \in CloudChatQuestions, role \in CallerRoles :
         \/ /\ CloudRoute(T(question)) # "nl2sql"
            /\ \E fc \in ForecastInputs :
                 /\ CloudRoute(T(question)) = "python_model" \/ fc = NoForecast
                 /\ CloudChatAnswer(question, role, fc, "", Unreached, Unasked,
                        cloud_chat_endpoint(T(question), role, fc, <<>>, Unreached, Unasked))
         \/ /\ CloudRoute(T(question)) = "nl2sql"
            /\ CloudOutputType(Lower(T(question))) # "graph"
            /\ \E sql \in CloudChatSql :
                 \E o \in CloudOutcomes(T(question), role, T(sql)) :
                     CloudChatAnswer(question, role, NoForecast, sql, o.store, o.summary,
                         cloud_chat_endpoint(T(question), role, NoForecast, T(sql),
                                             o.store, o.summary))

\* the credentials posted to /token
Usernames == {"admin", "planner", "guest"}
Passwords == {"admin123", "planner123", "letmein"}
\* POST /token
LoginRequest ==
    /\ phase = "idle"
    /\ \E username \in Usernames, password \in Passwords :
         /\ phase' = "done"
         /\ entry' = "login"
         /\ req' = [question |-> "", role |-> None, sql |-> "", store |-> Unreached,
                    summary |-> Unasked, username |-> username, password |-> password]
         /\ resp' = [status |-> login(username, password).status,
                     content |-> login(username, password).content]
         /\ calls' = login(username, password).calls
         /\ UNCHANGED <<q, conn, txn, db, run, ROLE_TABLES>>

\* the request is over; its locals are discarded
NextRequest ==
    /\ phase = "done"
    /\ phase' = "idle"
    /\ entry' = "none"
    /\ req' = NoRequest
    /\ resp' = [status |-> 0]
    /\ calls' = <<>>
    /\ q' = ""
    /\ conn' = IF conn = "closed" THEN "none" ELSE conn
    /\ txn' = IF conn = "closed" THEN "none" ELSE txn
    /\ UNCHANGED <<db, run, ROLE_TABLES>>

Next == LoginRequest \/ ChatRequest \/ ExecutorCall \/ LegacyQuery \/ CloudRequest \/ PolicyLookup
        \/ ExtractorCall \/ DecideOutputType \/ CloudDecideOutputType
        \/ NarrativeRequest \/ CloudNarrativeRequest \/ CloudChatRequest
        \/ ParseDatetime \/ RenderAxes \/ AskAxes \/ RenderGraph \/ AskRequest \/ CloudChartRequest \/ NextRequest

Spec == Init /\ [][Next]_vars

(***************************************************************************)
(* Vocabulary of the properties.                                           *)
(***************************************************************************)
\* the request of the entry point e has been answered
Done(e) == phase = "done" /\ entry = e
\* the generator's output, resp. the statement given to the executor
Sql == T(req.sql)
\* the policy of the caller's role
Allowed == allowed_tables_for_role(req.role)
\* the generator's output is the refusal token, alone or followed by text
IsSentinel(s) == StartsWith(s, SENTINEL)
\* the statement was handed to the store
HandedToStore == Called(calls, "execute")

\* first position > b of the '"' that closes the quoted identifier opened at b
ClosingQuote(s, b) == NextChar(s, "\"", b + 1)
\* the keyword FROM or JOIN stands at position i of s, outside every string literal,
\* and a table name (bare or double-quoted) follows at position b
TableNameAt(s, low, i, b) ==
    /\ low[i] \in {"f", "j"}
    /\ OccursAt(low, FROM, i) \/ OccursAt(low, JOIN, i)
    /\ WordStartsAt(s, i)
    /\ OutsideLiteral(s, i)
    /\ i + 4 <= Len(s) /\ IsSpace(s[i + 4])
    /\ b <= Len(s)
    /\ \/ IsIdentStart(s[b])
       \/ s[b] = "\"" /\ ClosingQuote(s, b) <= Len(s)
\* the name that starts at position b, lower-cased
TableName(s, low, b) ==
    IF s[b] = "\"" THEN Str(SubSeq(low, b + 1, ClosingQuote(s, b) - 1))
    ELSE Str(SubSeq(low, b, SkipIdent(s, b) - 1))
ReferencedIn(s, low) ==
    {TableName(s, low, SkipSpaces(s, i + 4)) :
        i \in {j \in 1..Len(s) : TableNameAt(s, low, j, SkipSpaces(s, j + 4))}}
\* the tables the statement s reads from or joins, in lower case
ReferencedTables(s) == ReferencedIn(s, Lower(s))
\* some table the statement references is outside the list
ReferencesOutside(s, list) == \E t \in ReferencedTables(s) : ~InList(t, list)

(***************************************************************************)
(* Fail closed (C1).                                                       *)
(***************************************************************************)
\* the stages of handle_nl2sql that turn the generator's output down
RejectedBySentinel == req.sql = "" \/ IsSentinel(Sql)
RejectedByCount == Count(Sql, ";") > 1
RejectedByValidator == RejectRule(Sql) # "none"
\* every table of the list is in the allowed list
AllAllowed(tables, allowed) == \A k \in 1..Len(tables) : InList(tables[k], allowed)
\* every table of the list but the keyword tokens of the pre-check is
AllAllowedButTokens(tables, allowed) ==
    \A k \in 1..Len(tables) : tables[k] \in PipelineSkip \/ InList(tables[k], allowed)
\* the statement reached the store or a response carrying rows was built
RanOrAnswered == Called(calls, "connect") \/ "result" \in DOMAIN resp.content
\* a stage of handle_nl2sql runs only if no stage before it has rejected, and a
\* response that reports an error carries no rows, output type or summary
NoStageAfterReject ==
    /\ Called(calls, "extract_table_names") => ~RejectedBySentinel /\ ~RejectedByCount
    /\ Called(calls, "secure_run_query")
          => /\ Called(calls, "extract_table_names")
             /\ FirstForbidden(extract_table_names(Sql), Allowed) = <<>>
    /\ Called(calls, "connect")
          => /\ Called(calls, "secure_run_query")
             /\ ~RejectedByValidator
    /\ Called(calls, "summarize_results") \/ Called(calls, "decide_output_type")
          => Returned(calls, "commit")
    /\ "error" \in DOMAIN resp.content
          => /\ ~Called(calls, "decide_output_type")
             /\ ~Called(calls, "summarize_results")
             /\ "result" \notin DOMAIN resp.content
    /\ "result" \in DOMAIN resp.content => Returned(calls, "commit")

C2_DefenseInDepth ==
    Done("executor") /\ ReferencesOutside(Sql, Allowed) =>
        /\ ~Called(calls, "connect")
        /\ RejectRule(Sql) = "none" =>
              /\ "unauthorized_table" \in DOMAIN resp
              /\ resp.unauthorized_table \in ReferencedTables(Sql)
              /\ ~InList(resp.unauthorized_table, Allowed)
              /\ StartsWith(T(resp.error), T("unauthorized_table_access"))

\* Scenario A: planner and "SELECT * FROM Revenue_data;" end in unauthorized access
\* to revenue_data
C2_ScenarioA ==
    /\ Done("executor")
    /\ req.role = Some("planner")
    /\ req.sql = "SELECT * FROM Revenue_data;"
    /\ resp = [error |-> "unauthorized_table_access: 'revenue_data' is not permitted for your role",
               unauthorized_table |-> "revenue_data"]
    /\ ~Called(calls, "connect")

\* the executor hands a planner's statement over the double-quoted sqlite_sequence
\* to the store and returns its rows
C2_Bypass ==
    /\ Done("executor")
    /\ req.role = Some("planner")
    /\ req.sql = "SELECT * FROM \"sqlite_sequence\";"
    /\ q = "SELECT * FROM \"sqlite_sequence\" LIMIT 200;"
    /\ Returned(calls, "commit")
    /\ "rows" \in DOMAIN resp

(***************************************************************************)
(* Denials are a category of their own (C3).                               *)
(***************************************************************************)
\* the errors of validation, of the sentinel and of the store
OtherFailures == {"Could not convert question to SQL", "Multiple statements are not allowed",
                  "Unsafe or disallowed SQL statement detected.", "database is locked"}

\* C3: whenever the generated statement references a table outside the role's
\* policy, /chat answers 403 with a text containing 'forbidden'; validation
\* rejections, sentinel failures and execution errors answer 400; a 403 is never
\* produced for a statement whose tables are all allowed.
C3_DenialCategory ==
    Done("chat") /\ Called(calls, "handle_nl2sql") =>
        /\ ~RejectedBySentinel /\ ~RejectedByCount /\ ReferencesOutside(Sql, Allowed)
              => /\ resp.status = 403
                 /\ Contains(T(resp.content.error), T("forbidden"))
        /\ "error" \in DOMAIN resp.content /\ resp.content.error \in OtherFailures
              => resp.status = 400
        /\ resp.status = 403 => ReferencesOutside(Sql, Allowed)

\* /chat answers a planner's statement over the double-quoted sqlite_sequence with
\* 200 and the rows
C3_Bypass ==
    /\ Done("chat")
    /\ req.role = Some("planner")
    /\ req.sql = "SELECT * FROM \"sqlite_sequence\";"
    /\ resp.status = 200
    /\ "result" \in DOMAIN resp.content

(***************************************************************************)
(* No false denial for an authorized role (C4).                            *)
(***************************************************************************)
\* a single SELECT statement that passes validation
ValidSelect(s) ==
    /\ StartsWith(Lower(Strip(s)), SELECT)
    /\ Count(s, ";") <= 1
    /\ RejectRule(s) = "none"

\* C4: for role admin, every single-statement SELECT that passes validation and
\* reads only tables of the admin policy passes both table checks and is executed;
\* when the store answers, /chat answers 200 with generated_sql and the rows.
C4_NoFalseDenial ==
    /\ Done("chat")
    /\ req.role = Some("admin")
    /\ Called(calls, "handle_nl2sql")
    /\ ValidSelect(Sql)
    /\ ~ReferencesOutside(Sql, ROLE_TABLES.admin)
    => /\ Called(calls, "connect")
       /\ req.store.fail = "none"
             => /\ resp.status = 200
                /\ "generated_sql" \in DOMAIN resp.content
                /\ resp.content.generated_sql = req.sql
                /\ "result" \in DOMAIN resp.content

\* admin is denied a SELECT over meter_table whose string literal holds 'from b'
C4_FalseDenial ==
    /\ Done("chat")
    /\ req.role = Some("admin")
    /\ req.sql = "SELECT * FROM meter_table WHERE meter_id='from b'"
    /\ resp.status = 403
    /\ resp.content.error = "forbidden: role 'admin' cannot access table 'b'"
    /\ ~Called(calls, "connect")

(***************************************************************************)
(* Multi-statement reject (C5).                                            *)
(***************************************************************************)
\* C5: every SQL string with more than one ';' is rejected by the multi-statement
\* rule, which the validator checks before the forbidden-keyword rule, and is never
\* handed to the store under any role; /chat reports it as "Multiple statements are
\* not allowed" with status 400, the executor as an unsafe statement.
C5_MultiStatementReject ==
    phase = "done" /\ entry \in {"chat", "executor", "legacy"} /\ Count(Sql, ";") > 1 =>
        /\ RejectRule(Sql) = "multi"
        /\ ~_is_safe_statement(Sql)
        /\ ~Called(calls, "connect")
        /\ ~HandedToStore
        /\ entry = "chat" /\ Called(calls, "handle_nl2sql") /\ ~IsSentinel(Sql)
              => /\ resp.status = 400
                 /\ resp.content = [error |-> "Multiple statements are not allowed"]
        /\ entry \in {"executor", "legacy"}
              => resp = [error |-> "Unsafe or disallowed SQL statement detected."]

\* Scenario B: admin's statement with a stacked DROP, which breaks both rules, is
\* turned down as a multi-statement
C5_ScenarioB ==
    /\ Done("chat")
    /\ req.role = Some("admin")
    /\ req.sql = "SELECT * FROM meter_table; DROP TABLE meter_table;"
    /\ Contains(Lower(Sql), T("drop "))
    /\ RejectRule(Sql) = "multi"
    /\ resp = [status |-> 400, content |-> [error |-> "Multiple statements are not allowed"]]
    /\ ~Called(calls, "connect")

(***************************************************************************)
(* Forbidden keywords (C6).                                                *)
(***************************************************************************)
\* the denylist as the specification names it
Denylist == {T("drop"), T("delete"), T("update"), T("insert"), T("alter"), T("attach"),
             T("detach"), T("vacuum"), T("pragma"), T("--"), T("/*"), T("sqlite_master")}
\* a denylisted keyword occurs in s outside its string literals, in any letter case
KeywordIn(s, low) ==
    \E kw \in Denylist : \E i \in 1..Len(s) : OccursAt(low, kw, i) /\ OutsideLiteral(s, i)
HasDenylisted(s) == KeywordIn(s, Lower(s))

\* C6: every SQL string with a denylisted keyword outside a string literal, in any
\* letter case and whatever character follows the keyword, is rejected by validation
\* and never handed to the store.
C6_ForbiddenKeyword ==
    phase = "done" /\ entry \in {"chat", "executor", "legacy"} /\ HasDenylisted(Sql) =>
        /\ ~_is_safe_statement(Sql)
        /\ ~Called(calls, "connect")

\* DROP followed by a tab passes validation and is executed for admin
C6_TabAfterKeyword ==
    /\ Done("executor")
    /\ req.role = Some("admin")
    /\ req.sql = "DROP\tTABLE meter_table"
    /\ _is_safe_statement(Sql)
    /\ q = "DROP\tTABLE meter_table"
    /\ Returned(calls, "execute")
    /\ Returned(calls, "commit")

(***************************************************************************)
(* The sentinel is terminal (C7).                                          *)
(***************************************************************************)
\* C7: whenever the generator returns the sentinel, alone or followed by text,
\* handle_nl2sql (of either build) ends the request with the refusal or failure
\* response and performs no table extraction, authorization or execution on it.
C7_SentinelTerminal ==
    phase = "done" /\ entry \in {"chat", "cloud"} /\ IsSentinel(Sql)
    /\ Called(calls, "natural_to_sql") =>
        /\ ~Called(calls, "extract_table_names")
        /\ ~Called(calls, "_extract_table_names")
        /\ ~Called(calls, "allowed_tables_for_role")
        /\ ~Called(calls, "secure_run_query")
        /\ ~Called(calls, "connect")
        /\ entry = "chat"
              => resp = [status |-> 400,
                         content |-> [error |-> "Could not convert question to SQL"]]
        /\ entry = "cloud"
              => resp.summary = "I cannot answer this question because it might violate safety rules or is ambiguous."

\* the cloud build executes the statement that follows the sentinel and returns its
\* rows
C7_SentinelExecuted ==
    /\ Done("cloud")
    /\ req.sql = "--CANNOT_CONVERT--SELECT * FROM meter_table;"
    /\ q = "SELECT * FROM meter_table LIMIT 200;"
    /\ Returned(calls, "commit")
    /\ "result" \in DOMAIN resp

(***************************************************************************)
(* Row cap (C8).                                                           *)
(***************************************************************************)
\* the cap of the entry point
MaxRowsOf(e) == IF e = "legacy" THEN LegacyMaxRows ELSE DefaultMaxRows

\* C8: for every read query without a row-limit clause of its own the executor
\* appends the cap, so the rows returned never exceed max_rows (200 by default, 50
\* through run_query) however many rows the statement matches.
C8_RowCap ==
    /\ phase = "done"
    /\ entry \in {"executor", "legacy"}
    /\ "rows" \in DOMAIN resp
    /\ StartsWith(Lower(Strip(Sql)), SELECT)
    /\ ~HasLimitClause(Sql)
    => /\ resp.rows <= MaxRowsOf(entry)
       /\ HasTrailingLimit(T(q))
       /\ TrailingLimit(T(q)) = MaxRowsOf(entry)

\* a SELECT whose string literal holds ' limit ' runs uncapped and returns more rows
\* than the cap
C8_Uncapped ==
    /\ Done("legacy")
    /\ req.sql = "SELECT * FROM meter_table WHERE meter_id<>' limit '"
    /\ q = req.sql
    /\ "rows" \in DOMAIN resp
    /\ resp.rows = DefaultMaxRows + 1
    /\ resp.rows > LegacyMaxRows

(***************************************************************************)
(* One transaction per request (C9).                                       *)
(***************************************************************************)
NumCalls(cs, name) == Cardinality({k \in 1..Len(cs) : cs[k][1] = name})
\* the result of secure_run_query inside the response of the entry point
Succeeded == IF entry = "chat" THEN resp.status = 200
             ELSE IF entry = "cloud_chat" THEN "result" \in DOMAIN resp.content
             ELSE IF entry \in {"executor", "legacy"} THEN "rows" \in DOMAIN resp
             ELSE "result" \in DOMAIN resp

\* C9: once secure_run_query has opened its connection, every path ends with the
\* transaction committed (success, rows and columns returned) or rolled back (any
\* exception, an error returned) and the connection closed as the last thing the
\* function does; nothing is committed after a failure and no open connection or
\* transaction is left for a later request.
C9_TransactionClosed ==
    /\ phase = "done" /\ Called(calls, "connect") =>
          /\ NumCalls(calls, "connect") = 1
          /\ Returned(calls, "close")
          /\ conn = "closed"
          /\ txn \in {"committed", "rolledback", "none"}
          /\ txn = "none" <=> req.store.fail = "BEGIN"
          /\ entry \in {"executor", "legacy"} => calls[Len(calls)] = <<"close", TRUE>>
          /\ Succeeded <=> txn = "committed"
          /\ Succeeded <=> Returned(calls, "commit")
          /\ ~Succeeded <=> Returned(calls, "rollback")
          /\ ~(Returned(calls, "commit") /\ Called(calls, "rollback"))
          /\ entry \in {"executor", "legacy"} /\ ~Succeeded => resp = [error |-> req.store.msg]
          /\ entry \in {"executor", "legacy"} /\ Succeeded
                => DOMAIN resp = {"rows", "columns"} /\ resp.columns = req.store.columns
    /\ phase = "idle" => conn = "none" /\ txn = "none"

\* a statement that raises inside the transaction is rolled back and the connection
\* closed
C9_RolledBack ==
    /\ Done("executor")
    /\ req.store.fail = "execute"
    /\ Returned(calls, "BEGIN")
    /\ txn = "rolledback"
    /\ conn = "closed"
    /\ resp = [error |-> "database is locked"]

(***************************************************************************)
(* Deny by default (C10).                                                  *)
(***************************************************************************)
\* the role name as the policy reads it
RoleKey == Str(Lower(T(OrEmpty(req.role))))

\* C10: allowed_tables_for_role returns the empty set for every role that is
\* unknown, empty or None, and the configured set for a known role whatever the
\* letter case of its name; planner's set never contains revenue_data.
C10_DenyByDefault ==
    Done("policy") =>
        /\ req.role = None \/ RoleKey \notin {"admin", "planner"} => resp.tables = <<>>
        /\ RoleKey = "admin" => resp.tables = ROLE_TABLES.admin
        /\ RoleKey = "planner" => resp.tables = ROLE_TABLES.planner
        /\ RoleKey = "planner" => ~InList("revenue_data", resp.tables)
        /\ \A t \in {resp.tables[k] : k \in 1..Len(resp.tables)} :
              RoleKey \in DOMAIN ROLE_TABLES /\ InList(t, ROLE_TABLES[RoleKey])

\* the policy is asked about a planner spelled in mixed case
C10_MixedCase ==
    /\ Done("policy")
    /\ req.role = Some("PlaNNer")
    /\ resp.tables = <<"meter_table", "customer_table">>

(***************************************************************************)
(* The extractor over-approximates (C11).                                  *)
(***************************************************************************)
\* the elements of a list
Elements(list) == {list[k] : k \in 1..Len(list)}
\* an identifier follows the keyword FROM or JOIN that stands at position i of s
IdentFollowsAt(s, low, i) ==
    /\ low[i] \in {"f", "j"}
    /\ OccursAt(low, FROM, i) \/ OccursAt(low, JOIN, i)
    /\ WordStartsAt(s, i)
    /\ i + 4 <= Len(s) /\ IsSpace(s[i + 4])
    /\ SkipSpaces(s, i + 4) <= Len(s)
    /\ IsIdentStart(s[SkipSpaces(s, i + 4)])
\* the identifiers that follow FROM or JOIN anywhere in s, lower-cased
IdentsAfterFromJoin(s, low) ==
    {Str(SubSeq(low, SkipSpaces(s, i + 4), SkipIdent(s, SkipSpaces(s, i + 4)) - 1)) :
        i \in {j \in 1..Len(s) : IdentFollowsAt(s, low, j)}}
\* the schema tables whose name occurs in s as a word, in any letter case
SchemaTablesIn(s, low) ==
    {known[k] : k \in {j \in 1..Len(known) :
        \E i \in 1..Len(s) : /\ OccursAt(low, T(known[j]), i)
                              /\ WordStartsAt(s, i)
                              /\ WordEndsAt(s, i + Len(T(known[j])) - 1)}}
\* the list holds lower-case names, each once
LowerCasedOnce(list) ==
    /\ \A k \in 1..Len(list) : Str(Lower(T(list[k]))) = list[k]
    /\ Cardinality(Elements(list)) = Len(list)

\* C11: the result of _extract_table_names is lower-cased and duplicate-free, holds
\* every identifier that follows FROM or JOIN and every schema table whose name
\* occurs in the text, and so misses no table that the statement reads.
C11_NeverUnderApproximates ==
    Done("extractor") =>
        /\ LowerCasedOnce(resp.tables)
        /\ IdentsAfterFromJoin(Sql, Lower(Sql)) \subseteq Elements(resp.tables)
        /\ SchemaTablesIn(Sql, Lower(Sql)) \subseteq Elements(resp.tables)
        /\ ReferencedTables(Sql) \subseteq Elements(resp.tables)

\* the statement reads sqlite_sequence, which the extracted list does not hold
C11_TableMissed ==
    /\ Done("extractor")
    /\ req.sql = "SELECT * FROM \"sqlite_sequence\";"
    /\ "sqlite_sequence" \in ReferencedTables(Sql)
    /\ resp.tables = <<>>

(***************************************************************************)
(* The FROM/JOIN pass and quoted text (C12).                               *)
(***************************************************************************)
\* position i of s lies behind a comment marker that stands outside the literals
InComment(s, i) == \E j \in 1..(i - 1) : OccursAt(s, T("--"), j) /\ OutsideLiteral(s, j)
\* the identifiers that follow a FROM or JOIN outside the string literals and
\* comments of s
IdentsOutsideQuotedText(s, low) ==
    {Str(SubSeq(low, SkipSpaces(s, i + 4), SkipIdent(s, SkipSpaces(s, i + 4)) - 1)) :
        i \in {j \in 1..Len(s) : /\ IdentFollowsAt(s, low, j)
                                  /\ OutsideLiteral(s, j)
                                  /\ ~InComment(s, j)}}

\* C12: a 'from <word>' or 'join <word>' inside a string literal or a comment adds
\* nothing: every extracted name follows a FROM or JOIN outside quoted text or is a
\* schema table named in the text.
C12_NotInsideQuotedText ==
    Done("extractor") =>
        Elements(resp.tables)
            \subseteq IdentsOutsideQuotedText(Sql, Lower(Sql)) \cup SchemaTablesIn(Sql, Lower(Sql))

\* the word after 'from' inside a string literal is extracted as a table
C12_LiteralMatched ==
    /\ Done("extractor")
    /\ req.sql = "SELECT * FROM meter_table WHERE meter_id='from b'"
    /\ resp.tables = <<"b", "meter_table">>

(***************************************************************************)
(* The output-type classifier (C13).                                       *)
(***************************************************************************)
\* the keywords the specification names for the two families
VisualizationKeywords == {T("plot"), T("graph"), T("trend"), T("over time")}
NarrativeKeywords == {T("summary"), T("average"), T("how many")}
\* the keywords of either family in any build
AnyKeywords ==
    VisualizationKeywords \cup NarrativeKeywords
    \cup {T("chart"), T("time series"), T("summarize"), T("explain"), T("what is"),
          T("max"), T("min")}
\* a keyword of the set occurs in the question, in any letter case
Mentions(question, kws) == \E w \in kws : Contains(Lower(T(question)), w)

\* C13: for every question the classifier returns exactly one of graph, nl and
\* table: graph whenever a visualization keyword occurs, whatever else occurs;
\* otherwise nl whenever an aggregation/explanation keyword occurs; table when no
\* keyword occurs; "show trend of load for meter X" is a graph.
C13_FixedPriority ==
    phase = "done" /\ entry \in {"decide_output_type", "cloud_output_type"} =>
        /\ resp.output_type \in {"graph", "nl", "table"}
        /\ Mentions(req.question, VisualizationKeywords) => resp.output_type = "graph"
        /\ resp.output_type # "graph" /\ Mentions(req.question, NarrativeKeywords)
              => resp.output_type = "nl"
        /\ ~Mentions(req.question, AnyKeywords) => resp.output_type = "table"
        /\ req.question = "show trend of load for meter X" => resp.output_type = "graph"

\* the cloud-LLM build answers a "how many" question as a table
C13_HowManyAsTable ==
    /\ Done("cloud_output_type")
    /\ req.question = "how many meters are there"
    /\ resp.output_type = "table"

(***************************************************************************)
(* The empty result (C14).                                                 *)
(***************************************************************************)
EmptyResultText == "No results found."

\* C14: for an executed result with zero rows and the question "summarize revenue"
\* the response has output type nl and its summary is "No results found.", whatever
\* the language model answers.
C14_EmptyResultSummary ==
    /\ phase = "done"
    /\ entry \in {"narrative", "cloud_narrative"}
    /\ req.question = "summarize revenue"
    /\ "result" \in DOMAIN resp
    /\ resp.result = 0
    => /\ resp.output_type = "nl"
       /\ resp.summary = EmptyResultText

\* the empty result is answered with the sentence of the language model
C14_ModelSentence ==
    /\ Done("narrative")
    /\ req.question = "summarize revenue"
    /\ req.answer = [kind |-> "text", text |-> "Total revenue is 0."]
    /\ resp.result = 0
    /\ resp.output_type = "nl"
    /\ resp.summary = "Total revenue is 0."

(***************************************************************************)
(* Chart downsampling (C15).                                               *)
(***************************************************************************)
\* the point budget of the specification
Budget == 200
\* the result is a series of valid pairs under columns the renderer recognises
ValidSeries ==
    /\ Done("render_graph_png")
    /\ req.columns = <<"Datetime", "Revenue">>
    /\ \A k \in 1..Len(req.kinds) : req.kinds[k] = "valid"
\* the series that was plotted, <<>> when nothing was
Rendered == IF resp.image = None THEN <<>> ELSE (CHOOSE i \in resp.image : TRUE).series
\* the row a plotted point was read from: the minute of its date
RowOfPoint(pt) ==
    (CHOOSE d \in pt.date : TRUE).fields[4] * 60 + (CHOOSE d \in pt.date : TRUE).fields[5]
\* the plotted points are rows of the result in their order, the first row first,
\* each with its own value
SubsequenceFromFirst ==
    /\ Len(Rendered) >= 1
    /\ RowOfPoint(Rendered[1]) = 1
    /\ \A k \in 1..Len(Rendered) :
          /\ RowOfPoint(Rendered[k]) \in 1..Len(req.rows)
          /\ Rendered[k].value = Str(ToStr(RowOfPoint(Rendered[k]))) \o ".5"
    /\ \A k \in 1..(Len(Rendered) - 1) : RowOfPoint(Rendered[k]) < RowOfPoint(Rendered[k + 1])
\* the series is plotted as it is
Unchanged ==
    /\ Len(Rendered) = Len(req.rows)
    /\ \A k \in 1..Len(Rendered) : RowOfPoint(Rendered[k]) = k

NoValidRow(kinds) == \A k \in 1..Len(kinds) : kinds[k] # "valid"
\* the renderer was given a result in which no row yields a point: no row is valid,
\* or the columns name the value first while the rows hold the date first
RendererWithoutData ==
    /\ Done("render_graph_png")
    /\ NoValidRow(req.kinds) \/ req.columns = <<"load_kwh", "reading_time">>
\* the cloud-LLM handler executed the statement of a chart question and fetched a
\* result without a valid row
CloudChartWithoutData ==
    /\ Done("cloud_chart")
    /\ Returned(calls, "commit")
    /\ NoValidRow(req.kinds)
\* /ask executed the statement of a chart request and fetched a result without a
\* valid row
AskChartWithoutData ==
    /\ Done("ask")
    /\ req.output_type = "graph"
    /\ Len(resp.statements) >= 1
    /\ req.first.error = None
    /\ NoValidRow(req.first.kinds)

\* C16: in chart mode, when the executed result has no rows or no row yields a
\* parseable date together with a numeric value, the image is absent, the response
\* is a successful chart-type response and not an error response, and no other
\* statement is tried.
C16_NoDataNotFailure ==
    /\ RendererWithoutData => resp.image = None
    /\ CloudChartWithoutData =>
          /\ resp.output_type = "graph"
          /\ resp.image = None
          /\ "error" \notin DOMAIN resp
          /\ Cardinality({k \in 1..Len(calls) : calls[k][1] = "execute"}) = 1
    /\ AskChartWithoutData =>
          /\ resp.status = 200
          /\ resp.output_type = "graph"
          /\ resp.image = None
          /\ Len(resp.statements) = 1

\* C16 without its last clause for /ask: it holds
C16_NullImageChartResponse ==
    /\ RendererWithoutData => resp.image = None
    /\ CloudChartWithoutData =>
          /\ resp.output_type = "graph"
          /\ resp.image = None
          /\ "error" \notin DOMAIN resp
          /\ Cardinality({k \in 1..Len(calls) : calls[k][1] = "execute"}) = 1
    /\ AskChartWithoutData =>
          /\ resp.status = 200
          /\ resp.output_type = "graph"
          /\ resp.image = None

\* /ask in chart mode fetched one row whose date is the text of a header, and ran
\* a second statement
C16_SecondStatement ==
    /\ AskChartWithoutData
    /\ req.first.kinds = <<"bad_date">>
    /\ Len(resp.statements) = 2
    /\ resp.statements[2] = "SELECT MIN(datetime), MAX(datetime) FROM meter_table WHERE datetime GLOB '[0-9]*' LIMIT 50;"
    /\ resp.image = None

(***************************************************************************)
(* Requests in parallel.  Under Spec a request is answered in one step     *)
(* against a store behaviour drawn as an input; here every request runs    *)
(* handle_nl2sql's call of secure_run_query line by line against the rows  *)
(* of the SQLite file, and the steps of different requests interleave.     *)
(***************************************************************************)
\* SQLite's random(): the values one call can return
RandomValues == {"-5786919798727401446", "-5336084694128280935"}
\* the rows meter_table grows to
MaxStoreRows == 2

ParallelRoles == {Some("admin"), Some("planner")}
ParallelSql ==
    {"SELECT * FROM meter_table;",
     "SELECT * FROM Revenue_data;",
     "SELECT * FROM \"sqlite_sequence\";",
     "SELECT * FROM \"readings\";",
     "SELECT random() FROM meter_table;",
     "REPLACE INTO meter_table(meter_id, datetime) VALUES ('M2', '2024-01-02');"}

\* how SQLite runs the statement stmt (a text) on the tables
IsSelect(stmt) == StartsWith(Lower(stmt), SELECT)
IsVolatile(stmt) == Contains(Lower(stmt), T("random()"))
SqliteTable(stmt) ==
    IF ReferencedTables(stmt) = {} THEN "" ELSE CHOOSE t \in ReferencedTables(stmt) : TRUE
SqliteError(stmt, tables) ==
    IF IsSelect(stmt) /\ SqliteTable(stmt) \notin DOMAIN tables
    THEN "no such table: " \o SqliteTable(stmt)
    ELSE ""
SqliteMatched(stmt, tables) == IF IsSelect(stmt) THEN tables[SqliteTable(stmt)] ELSE <<>>
SqliteColumnsOf(t) == IF t = "sqlite_sequence" THEN <<"name", "seq">> ELSE TableColumns[t]
\* cur.description after the statement
SqliteColumns(stmt) ==
    IF ~IsSelect(stmt) THEN <<>>
    ELSE IF IsVolatile(stmt) THEN <<"random()">>
    ELSE SqliteColumnsOf(SqliteTable(stmt))
\* the values random() may take, one per row handed back
SqliteDraws(stmt, matched) ==
    IF IsVolatile(stmt) THEN [1..FetchAll(stmt, Len(matched)) -> RandomValues] ELSE {<<>>}
\* cur.fetchall()
SqliteRows(stmt, matched, rnd) ==
    [k \in 1..FetchAll(stmt, Len(matched)) |->
        IF IsVolatile(stmt) THEN <<rnd[k]>> ELSE matched[k]]
\* the k-th string literal of the statement
QuotePositions(s) == {i \in 1..Len(s) : s[i] = "'"}
NthQuote(s, k) ==
    CHOOSE i \in QuotePositions(s) : Cardinality({j \in QuotePositions(s) : j < i}) = k - 1
Literal(s, k) == Str(SubSeq(s, NthQuote(s, 2 * k - 1) + 1, NthQuote(s, 2 * k) - 1))
\* the tables once the statement's transaction is committed: REPLACE INTO
\* meter_table(meter_id, datetime) adds a row under the next id
SqliteWrite(stmt, tables) ==
    IF IsSelect(stmt) THEN tables
    ELSE [tables EXCEPT
            !.meter_table = Append(@, MeterRow(Len(@) + 1, Literal(stmt, 1), Literal(stmt, 2))),
            !.sqlite_sequence = SequenceRows(Len(tables.meter_table) + 1)]

\* the calls that will add a row and have not committed yet
WritersInFlight ==
    {r \in Requests : run[r].pc \in {"admitted", "connected", "begun", "fetched"}
                      /\ ~IsSelect(T(run[r].q))}

\* the variables of the one-step view and the policy, which the calls leave alone
sequential == <<phase, entry, req, resp, calls, q, conn, txn, ROLE_TABLES>>

\* chatbot_pipeline.py 40-59 and db.py 87-108: the locals after the handler's
\* checks and the executor's admission, plan being Plan(role, sql)
Entered(role, sql, plan) ==
    IF plan.reject # <<>>
    THEN [IdleRun EXCEPT !.pc = "returned", !.role = role, !.sql = sql,
                         !.allowed = allowed_tables_for_role(role),
                         !.res = plan.reject[1]]
    ELSE IF ~plan.adm.admitted
    THEN [IdleRun EXCEPT !.pc = "returned", !.role = role, !.sql = sql,
                         !.allowed = allowed_tables_for_role(role),
                         !.res = plan.adm.res]
    ELSE [IdleRun EXCEPT !.pc = "admitted", !.role = role, !.sql = sql,
                         !.allowed = allowed_tables_for_role(role),
                         !.q = Str(plan.adm.q)]

\* handle_nl2sql up to line 59 and secure_run_query up to line 108
Call(r) ==
    /\ run[r].pc = "idle"
    /\ \E role \in ParallelRoles, sql \in ParallelSql :
         /\ \/ IsSelect(T(sql))
            \/ Len(db.tables.meter_table) + Cardinality(WritersInFlight) < MaxStoreRows
         /\ run' = [run EXCEPT ![r] = Entered(role, sql, Plan(role, T(sql)))]
    /\ UNCHANGED <<db, sequential>>

\* db.py 110-111: sqlite3.connect, conn.cursor
Connect(r) ==
    /\ run[r].pc = "admitted"
    /\ run' = [run EXCEPT ![r].pc = "connected", ![r].conn = "open"]
    /\ UNCHANGED <<db, sequential>>

\* db.py 113: cur.execute("BEGIN")
Begin(r) ==
    /\ run[r].pc = "connected"
    /\ run' = [run EXCEPT ![r].pc = "begun", ![r].txn = "active"]
    /\ UNCHANGED <<db, sequential>>

\* db.py 114-116 for a SELECT the store can run: the connection takes a SHARED lock
\* and reads the rows
ExecuteRead(r, qt) ==
    /\ IsSelect(qt)
    /\ SqliteError(qt, db.tables) = ""
    /\ \E rnd \in SqliteDraws(qt, SqliteMatched(qt, db.tables)) :
         run' = [run EXCEPT ![r].pc = "fetched",
                            ![r].saw = db.tables,
                            ![r].rows = SqliteRows(qt, SqliteMatched(qt, db.tables), rnd),
                            ![r].columns = SqliteColumns(qt)]
    /\ db' = [db EXCEPT !.readers = @ \cup {r}]
\* db.py 114 raising, then 119
ExecuteRaise(r, qt) ==
    /\ SqliteError(qt, db.tables) # ""
    /\ run' = [run EXCEPT ![r].pc = "raised", ![r].saw = db.tables,
                          ![r].msg = SqliteError(qt, db.tables)]
    /\ UNCHANGED db
\* db.py 114-116 for a statement that writes: the connection waits for the RESERVED
\* lock (sqlite3's busy timeout) and takes it
ExecuteWrite(r, qt) ==
    /\ ~IsSelect(qt)
    /\ db.writer = 0
    /\ run' = [run EXCEPT ![r].pc = "fetched", ![r].saw = db.tables,
                          ![r].rows = <<>>, ![r].columns = SqliteColumns(qt)]
    /\ db' = [db EXCEPT !.writer = r]
ExecuteFetch(r) ==
    /\ run[r].pc = "begun"
    /\ \/ ExecuteRead(r, T(run[r].q))
       \/ ExecuteRaise(r, T(run[r].q))
       \/ ExecuteWrite(r, T(run[r].q))
    /\ UNCHANGED sequential

\* db.py 117-118: conn.commit() and the dict returned; a writer waits until no other
\* connection reads, then its row is in the file
Commit(r) ==
    /\ run[r].pc = "fetched"
    /\ db.writer = r => db.readers \ {r} = {}
    /\ db' = [tables |-> IF db.writer = r THEN SqliteWrite(T(run[r].q), db.tables)
                         ELSE db.tables,
              readers |-> db.readers \ {r},
              writer |-> IF db.writer = r THEN 0 ELSE db.writer]
    /\ run' = [run EXCEPT ![r].pc = "finally", ![r].txn = "committed",
                          ![r].res = [rows |-> run[r].rows, columns |-> run[r].columns]]
    /\ UNCHANGED sequential

\* db.py 119-121: conn.rollback() and the dict returned
Rollback(r) ==
    /\ run[r].pc = "raised"
    /\ db' = [db EXCEPT !.readers = @ \ {r}, !.writer = IF @ = r THEN 0 ELSE @]
    /\ run' = [run EXCEPT ![r].pc = "finally", ![r].txn = "rolledback",
                          ![r].res = [error |-> run[r].msg]]
    /\ UNCHANGED sequential

\* db.py 122-123: conn.close()
Close(r) ==
    /\ run[r].pc = "finally"
    /\ run' = [run EXCEPT ![r].pc = "returned", ![r].conn = "closed"]
    /\ UNCHANGED <<db, sequential>>

\* the request is answered; its locals are discarded
Return(r) ==
    /\ run[r].pc = "returned"
    /\ run' = [run EXCEPT ![r] = IdleRun]
    /\ UNCHANGED <<db, sequential>>

ParallelNext ==
    \E r \in Requests :
        Call(r) \/ Connect(r) \/ Begin(r) \/ ExecuteFetch(r) \/ Commit(r)
        \/ Rollback(r) \/ Close(r) \/ Return(r)

Parallel == Init /\ [][ParallelNext]_vars

(***************************************************************************)
(* Idempotence of reads (C17).                                             *)
(***************************************************************************)
\* the call of request r ran an authorized SELECT and returned its rows
Reads(r) ==
    /\ run[r].pc = "returned"
    /\ "rows" \in DOMAIN run[r].res
    /\ IsSelect(T(run[r].q))
\* two calls ran the same statement under the same policy on the same contents
SameRead(r1, r2) ==
    /\ Reads(r1) /\ Reads(r2)
    /\ run[r1].sql = run[r2].sql
    /\ run[r1].allowed = run[r2].allowed
    /\ run[r1].saw = run[r2].saw

\* C17 (rows and columns): two executions of the same authorized read-only SELECT
\* with no write between them return identical rows and identical columns
C17_ReadsIdempotent ==
    \A r1, r2 \in Requests :
        SameRead(r1, r2) =>
            /\ run[r1].res.rows = run[r2].res.rows
            /\ run[r1].res.columns = run[r2].res.columns

\* C17 for the statements that call no volatile function: it holds
C17_DeterministicReadsIdempotent ==
    \A r1, r2 \in Requests :
        SameRead(r1, r2) /\ ~IsVolatile(T(run[r1].sql)) =>
            /\ run[r1].res.rows = run[r2].res.rows
            /\ run[r1].res.columns = run[r2].res.columns
            /\ run[r1].res.rows = SubSeq(SqliteMatched(T(run[r1].q), run[r1].saw), 1,
                                         Len(run[r1].res.rows))

\* C17 (contents): no step of a call that runs a SELECT changes the rows of the store
C17_ReadsLeaveStore ==
    [][\A r \in Requests :
          run'[r] # run[r] /\ IsSelect(T(run[r].q)) /\ run[r].pc # "idle"
             => db'.tables = db.tables]_vars

\* two calls of SELECT random() FROM meter_table under the planner policy, both on
\* the same one-row table, returned different rows
C17_RandomRowsDiffer ==
    /\ SameRead(1, 2)
    /\ run[1].sql = "SELECT random() FROM meter_table;"
    /\ run[1].role = Some("planner")
    /\ run[1].res.columns = run[2].res.columns
    /\ Len(run[1].res.rows) = 1 /\ Len(run[2].res.rows) = 1
    /\ run[1].res.rows # run[2].res.rows

(***************************************************************************)
(* Forecast requests bypass the gateway (C18).                             *)
(***************************************************************************)
CallsMade == {calls[k][1] : k \in 1..Len(calls)}
\* SQL generation, validation, extraction, the executor and what it does
GatewayCalls == {"natural_to_sql", "handle_nl2sql", "extract_table_names",
                 "_is_safe_statement", "_extract_table_names", "secure_run_query",
                 "connect", "BEGIN", "execute", "fetchall", "commit", "rollback"}
\* the forecast path and what it does
ForecastCalls == {"forecast_revenue", "os.path.exists", "parse_horizon",
                  "load_revenue_data", "joblib.load", "model.predict", "run_llm"}
\* the cloud-LLM endpoint classified the question with the given intent
CloudClassified(intent) ==
    /\ Done("cloud_chat")
    /\ req.question # ""
    /\ ~cloud_is_greeting(T(req.question))
    /\ cloud_classify_intent(T(req.question)) = intent
\* the 12-30 endpoint classified the question with the given intent
ChatClassified(intent) ==
    /\ Done("chat")
    /\ req.question # ""
    /\ ~is_greeting(T(req.question))
    /\ classify_intent(T(req.question)) = intent

ThroughExecutor ==
    phase = "done" /\ entry \in {"chat", "executor", "legacy", "cloud", "cloud_chat",
                                 "cloud_chart"}
CountOf(name) == Cardinality({k \in 1..Len(calls) : calls[k][1] = name})
\* the request was turned down for a table outside the caller's policy
UnauthorizedAnswer ==
    \/ entry \in {"executor", "legacy"} /\ "unauthorized_table" \in DOMAIN resp
    \/ entry = "chat" /\ resp.status = 403
    \/ /\ entry \in {"cloud", "cloud_chart"}
       /\ StartsWith(T(resp.summary), T("Access Denied"))
    \/ /\ entry = "cloud_chat" /\ Called(calls, "handle_nl2sql")
       /\ StartsWith(T(resp.content.summary), T("Access Denied"))
\* the k-th call of the request raised inside the transaction
RaisedAt(k) == calls[k][1] \in Elements(TryCalls) /\ ~calls[k][2]

\* C19: a request hands at most one statement to the store; after an
\* unauthorized-table answer nothing was executed, and after a call of the
\* transaction raised, the request only rolls back and closes
C19_FailuresTerminal ==
    ThroughExecutor =>
        /\ CountOf("execute") <= 1
        /\ CountOf("secure_run_query") <= 1
        /\ CountOf("connect") <= 1
        /\ UnauthorizedAnswer =>
              /\ CountOf("connect") = 0 /\ CountOf("execute") = 0
              /\ q = ""
        /\ \A k \in 1..Len(calls) :
              RaisedAt(k) =>
                 \A j \in (k + 1)..Len(calls) : calls[j][1] \in {"rollback", "close"}

\* /chat met a store that raised on the statement: the request rolled back, closed
\* the connection and answered 400 without another statement
C19_ErrorThenNothing ==
    /\ Done("chat")
    /\ resp.status = 400
    /\ \E k \in 1..Len(calls) :
         /\ calls[k] = <<"execute", FALSE>>
         /\ SubSeq(calls, k + 1, Len(calls)) = << <<"rollback", TRUE>>, <<"close", TRUE>> >>
    /\ CountOf("execute") = 1

(***************************************************************************)
(* Request isolation under concurrency (C20).                              *)
(***************************************************************************)
\* how the store behaves for the statement stmt when it holds the tables, in the
\* terms of the one-step view
BehaviourOn(stmt, tables) ==
    IF SqliteError(stmt, tables) # ""
    THEN [fail |-> "execute", n |-> 0, columns |-> <<>>, msg |-> SqliteError(stmt, tables)]
    ELSE [fail |-> "none", n |-> Len(SqliteMatched(stmt, tables)),
          columns |-> SqliteColumns(stmt), msg |-> ""]
\* what the request returns when it runs alone against the tables: the handler's
\* rejection, or the dict of secure_run_query with the number of its rows
AloneFrom(plan, tables) ==
    IF plan.reject # <<>> THEN plan.reject[1]
    ELSE IF ~plan.adm.admitted THEN plan.adm.res
    ELSE Execute(plan.adm, BehaviourOn(plan.adm.q, tables)).res
Alone(role, sql, tables) == AloneFrom(Plan(role, T(sql)), tables)
\* the call of request r has returned
Returned1(r) == run[r].pc = "returned"
\* the call of request r is between its admission and its return
InFlight(r) == run[r].pc \in {"admitted", "connected", "begun", "fetched", "raised", "finally"}
\* the outcome of request r is the outcome of the same request run alone against
\* the contents it met
AsAlone(r, alone) ==
    IF "rows" \in DOMAIN run[r].res
    THEN /\ "rows" \in DOMAIN alone
         /\ Len(run[r].res.rows) = alone.rows
         /\ run[r].res.columns = alone.columns
         /\ ~IsVolatile(T(run[r].q)) =>
               run[r].res.rows = SubSeq(SqliteMatched(T(run[r].q), run[r].saw), 1, alone.rows)
    ELSE run[r].res = alone
\* the contents request r met: those it read, or the present ones when it was
\* turned down before the store
Met(r) == IF run[r].q = "" THEN db.tables ELSE run[r].saw

\* C20 (own policy, own outcome): every request is checked against the tables of
\* its own role, and what it returns is what it returns when run alone
C20_IsolatedOutcomes ==
    \A r \in Requests :
        /\ run[r].pc # "idle" => run[r].allowed = allowed_tables_for_role(run[r].role)
        /\ Returned1(r) =>
              /\ AsAlone(r, Alone(run[r].role, run[r].sql, Met(r)))
              /\ run[r].q # "" => run[r].conn = "closed"
                                  /\ run[r].txn \in {"committed", "rolledback"}

\* C20 (own connection and transaction): a step of one request leaves the locals,
\* the connection and the transaction of every other request as they were
C20_OwnLocals ==
    [][\A r1, r2 \in Requests : r1 # r2 /\ run'[r1] # run[r1] => run'[r2] = run[r2]]_vars

\* C20: requests under different roles running in parallel are each checked
\* against their own role's tables and return what they return alone, and a planner
\* request never obtains rows of a table outside the planner policy
C20_RequestIsolation ==
    /\ C20_IsolatedOutcomes
    /\ \A r \in Requests :
          Reads(r) /\ run[r].role = Some("planner") /\ Len(run[r].res.rows) > 0
             => InList(SqliteTable(T(run[r].q)), ROLE_TABLES.planner)

\* while an admin request was in flight, a planner request returned the row of
\* sqlite_sequence, a table outside the planner policy
C20_PlannerReadsOutsidePolicy ==
    /\ Reads(1)
    /\ run[1].role = Some("planner")
    /\ run[1].sql = "SELECT * FROM \"sqlite_sequence\";"
    /\ run[1].res.rows = << <<"meter_table", "1">> >>
    /\ run[2].role = Some("admin") /\ InFlight(2)

(***************************************************************************)
(* The role policy is fixed configuration (C21).                           *)
(***************************************************************************)
\* C21: after any sequence of login, chat, forecast and query requests the
\* role-to-tables mapping equals its start-up value; no request adds a table to a
\* role's allowed set
C21_PolicyFixed == ROLE_TABLES = StartupRoleTables

\* a planner's request for Revenue_data was turned down with 403 and the planner's
\* list is still the one of start-up
C21_DeniedNotGranted ==
    /\ Done("chat")
    /\ req.role = Some("planner")
    /\ resp.status = 403
    /\ resp.content.table = "revenue_data"
    /\ ROLE_TABLES.planner = <<"meter_table", "customer_table">>

(***************************************************************************)
(* The row cap is the only change made to a statement (C22).               *)
(***************************************************************************)
\* s without one trailing ';', then the cap
WithCap(s, max_rows) ==
    (IF EndsWith(s, T(";")) THEN SubSeq(s, 1, Len(s) - 1) ELSE s)
    \o T(" LIMIT ") \o ToStr(max_rows) \o T(";")
\* max_rows of the entry point
MaxRowsHere == IF entry = "legacy" THEN LegacyMaxRows ELSE DefaultMaxRows
\* the text handed to the store is the generated statement, up to the white space
\* around it, or that statement with the cap
OnlyCapped == T(q) \in {Strip(Sql), WithCap(Strip(Sql), MaxRowsHere)}

\* C22: the text handed to the store equals the generated statement except for the
\* row cap (one trailing ';' removed, ' LIMIT <max_rows>;' appended); validation
\* does not rewrite the statement
C22_OnlyRowCap ==
    phase = "done" /\ entry \in {"chat", "executor", "legacy", "cloud"} /\ HandedToStore
        => OnlyCapped

\* C22 for the endpoints of the 12-30 build: it holds
C22_OnlyRowCapExecutor ==
    phase = "done" /\ entry \in {"chat", "executor", "legacy"} /\ HandedToStore
        => OnlyCapped

\* C22 (tables): the extractor finds the same tables in the statement that was
\* checked and in the text that was executed
C22_CheckedIsExecuted ==
    /\ phase = "done" /\ entry \in {"chat", "executor", "legacy"} /\ HandedToStore
          => _extract_table_names(Sql) = _extract_table_names(T(q))
    /\ Done("cloud") /\ HandedToStore /\ "generated_sql" \in DOMAIN resp
          => _extract_table_names(T(resp.generated_sql)) = _extract_table_names(T(q))

\* the cloud-LLM handler cut the explanation in front of the statement and executed
\* what was left
C22_ExplanationCut ==
    /\ Done("cloud")
    /\ req.sql = "Here is the query: SELECT * FROM meter_table;"
    /\ q = "SELECT * FROM meter_table LIMIT 200;"
    /\ HandedToStore

(***************************************************************************)
(* Bad rows of a chart (C23).                                              *)
(***************************************************************************)
\* the formats that parse the text s, by their place in the order
Matching(s) == {k \in 1..Len(DateFormats) : Strptime(s, DateFormats[k])}
\* what parse_datetime_safe returned
Parsed == CHOOSE d \in resp.datetime : TRUE
\* the rows that hold a date of a known format and a number under the columns the
\* renderer reads
GoodRows ==
    IF req.columns = <<"load_kwh", "reading_time">> THEN {}
    ELSE {k \in 1..Len(req.kinds) : req.kinds[k] = "valid"}

\* C23: a row whose datetime cell matches none of the known formats or whose value
\* cell is not numeric is dropped and the remaining rows are rendered, in their
\* order; parse_datetime_safe returns None exactly when no format matches, and
\* otherwise what the first matching format of the fixed order reads
C23_BadRowsDropped ==
    /\ Done("render_graph_png") /\ Len(req.rows) <= MAX_POINTS =>
          /\ Len(Rendered) = Cardinality(GoodRows)
          /\ \A k \in 1..Len(Rendered) : RowOfPoint(Rendered[k]) \in GoodRows
          /\ \A k \in 1..(Len(Rendered) - 1) :
                RowOfPoint(Rendered[k]) < RowOfPoint(Rendered[k + 1])
    /\ Done("parse_datetime_safe") =>
          /\ resp.datetime = None <=> Matching(T(CellStr(req.val))) = {}
          /\ resp.datetime # None =>
                Parsed.fmt = DateFormats[FirstOf(Matching(T(CellStr(req.val))), 0)].fmt

\* a row with a bad date and a row with a bad value stand around a good row, and
\* the good row alone is plotted
C23_GoodRowKept ==
    /\ Done("render_graph_png")
    /\ req.kinds = <<"bad_date", "valid", "bad_value">>
    /\ req.columns = <<"ts", "amount">>
    /\ Len(Rendered) = 1
    /\ RowOfPoint(Rendered[1]) = 2

(***************************************************************************)
(* The axes of a chart (C24).                                              *)
(***************************************************************************)
\* the indices (from 0) of the columns whose name contains one of the words
NamedColumns(words) ==
    {i \in 0..(Len(req.columns) - 1) : ContainsAny(Lower(T(req.columns[i + 1])), words)}
\* the indices of the columns whose cells in the first rows are dates
DateColumns ==
    {i \in 0..(Len(req.columns) - 1) :
        \A k \in 1..Len(req.rows) : parse_datetime_safe(req.rows[k][i + 1]) # None}
\* the words of a measure
Measures == <<"load", "mw", "kwh", "revenue">>

\* C24: a column whose name contains 'date' or 'time' is the datetime axis; when no
\* name does, the axis is the first column whose cells in the first rows parse as
\* dates; the value series is a column whose name contains a measure keyword, and
\* otherwise the last column
C24_AxisSelection ==
    phase = "done" /\ entry \in {"render_axes", "ask_axes"} =>
        /\ NamedColumns(<<"date", "time">>) # {}
              => resp.datetime_idx \in NamedColumns(<<"date", "time">>)
        /\ NamedColumns(<<"date", "time">>) = {} /\ DateColumns # {}
              => resp.datetime_idx = FirstOf(DateColumns, 0)
        /\ NamedColumns(Measures) # {} => resp.value_idx \in NamedColumns(Measures)
        /\ NamedColumns(Measures) = {} => resp.value_idx = Len(req.columns) - 1

\* C24 without the probe of the rows and with the measure words of each build: it
\* holds
C24_AxisByName ==
    phase = "done" /\ entry \in {"render_axes", "ask_axes"} =>
        LET words == IF entry = "ask_axes" THEN <<"load", "mw", "kwh">> ELSE Measures
        IN  /\ NamedColumns(<<"date", "time">>) # {}
                  => resp.datetime_idx \in NamedColumns(<<"date", "time">>)
            /\ NamedColumns(words) # {} => resp.value_idx \in NamedColumns(words)
            /\ NamedColumns(words) = {} => resp.value_idx = Len(req.columns) - 1

\* render_graph_png takes the first column for the datetime axis although its
\* cells are names and the cells of the second column are dates
C24_FirstColumnNotADate ==
    /\ Done("render_axes")
    /\ req.columns = <<"name", "bucket", "total">>
    /\ req.rows = << <<Some("M1"), Some("2024-01-01"), Some("1.5")>> >>
    /\ resp.datetime_idx = 0

\* /ask takes the last column for the value series although a column is named
\* Revenue
C24_RevenueNotAMeasure ==
    /\ Done("ask_axes")
    /\ req.columns = <<"Datetime", "Revenue", "note">>
    /\ resp.value_idx = 2

(***************************************************************************)
(* The point budget of a chart (C25).                                      *)
(***************************************************************************)
\* C25: for every number of valid points, the series that is plotted after
\* downsampling contains at most MAX_POINTS (200) points
C25_PointBudget == Done("render_graph_png") => Len(Rendered) <= Budget

\* what the stride guarantees: fewer than twice the budget
C25_UnderTwiceBudget == Done("render_graph_png") => Len(Rendered) < 2 * Budget

\* a series of 399 valid pairs is plotted with all its 399 points
C25_StrideOne ==
    /\ ValidSeries
    /\ Len(req.rows) = 2 * Budget - 1
    /\ Len(Rendered) = 2 * Budget - 1

(***************************************************************************)
(* The gateway is read-only (C26).                                         *)
(***************************************************************************)
\* C26: after any sequence of secure_run_query calls with statements that pass
\* _is_safe_statement and the authorization check, under any role, the contents
\* and the schema of the store are what they were before the sequence
C26_ReadOnly == db.tables = InitialTables

\* a planner's REPLACE INTO passed both checks, was committed and returned, and
\* meter_table holds a second row
C26_ReplaceWrote ==
    /\ run[1].pc = "returned"
    /\ run[1].role = Some("planner")
    /\ run[1].sql = "REPLACE INTO meter_table(meter_id, datetime) VALUES ('M2', '2024-01-02');"
    /\ run[1].res = [rows |-> <<>>, columns |-> <<>>]
    /\ run[1].txn = "committed"
    /\ db.tables.meter_table = <<MeterRow(1, "M1", "2024-01-01"), MeterRow(2, "M2", "2024-01-02")>>

(***************************************************************************)
(* Callers without a policy (C27).                                         *)
(***************************************************************************)
\* C27: a caller whose role maps to the empty allowed-table set never receives
\* rows: secure_run_query called with an empty allowed set returns an error and
\* never executes the statement
C27_EmptyPolicyNoRows ==
    phase = "done" /\ entry \in {"chat", "executor"} /\ Allowed = <<>>
    /\ Called(calls, "secure_run_query")
        => /\ ~HandedToStore
           /\ IF entry = "chat" THEN resp.status # 200 ELSE "error" \in DOMAIN resp

\* the tables of the statement that the executor's loop does not pass over
Checked(tables) ==
    {k \in 1..Len(tables) : tables[k] \notin ExecutorSkip /\ ~LooksLikeCall(tables[k])}

\* with an empty allowed set every statement in which the extractor finds a table
\* is turned down before the store
C27_NamedTablesDenied ==
    phase = "done" /\ entry \in {"chat", "executor"} /\ Allowed = <<>>
    /\ Called(calls, "secure_run_query") /\ Checked(_extract_table_names(Sql)) # {}
        => /\ ~HandedToStore
           /\ IF entry = "chat" THEN resp.status # 200 ELSE "error" \in DOMAIN resp

\* secure_run_query, called for the role user with a statement that names its
\* table in double quotes, executed it and returned rows
C27_RowsWithoutPolicy ==
    /\ Done("executor")
    /\ req.role = Some("user")
    /\ req.sql = "SELECT * FROM \"sqlite_sequence\";"
    /\ HandedToStore
    /\ "rows" \in DOMAIN resp
    /\ resp.rows > 0

(***************************************************************************)
(* The pre-check of the pipeline and the re-check of the executor (C28).   *)
(***************************************************************************)
\* the table the pre-check of handle_nl2sql turns the statement down for, and the
\* table the re-check of secure_run_query does
PreChecked == FirstForbidden(_extract_table_names(Sql), Allowed)
ReChecked == FirstUnauthorized(_extract_table_names(Sql), Allowed)

\* C28: when the pre-check in handle_nl2sql authorizes all extracted tables, the
\* re-check inside secure_run_query on the same statement and allowed set does not
\* return unauthorized_table_access; every statement the executor denies for an
\* unauthorized table is denied by the pre-check
C28_ChecksAgree ==
    /\ Done("chat") /\ Called(calls, "secure_run_query") =>
          /\ PreChecked = <<>>
          /\ resp.status # 403
    /\ phase = "done" /\ entry \in {"chat", "executor"} /\ ReChecked # <<>> => PreChecked # <<>>
    /\ Done("executor") /\ "unauthorized_table" \in DOMAIN resp => PreChecked # <<>>

\* the executor, called alone, denies a planner's statement for revenue_data, the
\* table the pre-check denies it for
C28_BothDeny ==
    /\ Done("executor")
    /\ req.role = Some("planner")
    /\ "unauthorized_table" \in DOMAIN resp
    /\ <<resp.unauthorized_table>> = PreChecked
    /\ PreChecked = <<"revenue_data">>

(***************************************************************************)
(* The date series and the value series (C29).                             *)
(***************************************************************************)
\* every plotted point of render_graph_png holds the value of the row of its date
PointsPaired ==
    \A k \in 1..Len(Rendered) :
        Rendered[k].value = Str(ToStr(RowOfPoint(Rendered[k]))) \o ".5"
\* the rows /ask plotted, and the two series it built from them
AskPlotted ==
    IF Len(resp.statements) = 2 /\ req.fix.error = None THEN req.fix ELSE req.first
AskDateSeries == AskDates(AskPlotted.rows, AskDatetimeColumn(AskPlotted.rows, AskPlotted.columns))
AskValueSeries ==
    AskValues(AskPlotted.rows, AskDatetimeColumn(AskPlotted.rows, AskPlotted.columns),
              AskValueColumn(AskPlotted.columns))
\* /ask came to the chart with rows
AskCharted ==
    /\ Done("ask") /\ "output_type" \in DOMAIN req /\ req.output_type = "graph"
    /\ resp.status \in {200, 500} /\ "statements" \in DOMAIN resp
    /\ Len(resp.statements) >= 1
    /\ "error" \in DOMAIN resp => resp.error = "Graph rendering failed"

\* C29: in every chart render path the date series and the value series have equal
\* length after any sequence of rows, and the i-th date and the i-th value come
\* from the same row
C29_SeriesPaired ==
    /\ Done("render_graph_png") => PointsPaired
    /\ AskCharted => Len(AskDateSeries) = Len(AskValueSeries)

\* C29 for render_graph_png: it holds
C29_RendererPaired == Done("render_graph_png") => PointsPaired

\* /ask read a row with a date and no number and a good row: two dates and one
\* value, and the plot failed
C29_DateWithoutValue ==
    /\ AskCharted
    /\ req.first.kinds = <<"bad_value", "valid">>
    /\ Len(AskDateSeries) = 2
    /\ AskValueSeries = <<"2.5">>
    /\ resp.status = 500

(***************************************************************************)
(* What /ask hands to run_query (C30).                                     *)
(***************************************************************************)
\* the texts /ask handed to run_query: the statement after the rewrites, and fix_q
AskFirst == AskRewritten(T(req.question), req.output_type, T(req.sql))
AskSecond == FixQuery(AskFirst, req.first)[1]
\* /ask called run_query k times or more
AskRan(k) ==
    /\ Done("ask") /\ Len(resp.statements) >= k
    /\ resp.statements[1] = Str(AskStatement(AskFirst))
    /\ k = 2 => resp.statements[2] = Str(AskStatement(AskSecond))

\* C30: in the /ask handler every SQL text handed to run_query is accepted by
\* is_query_safe: the generated statement after the customer-join and
\* graph-fallback rewrites, and the MIN/MAX repair query run after the first
\* execution
C30_EveryTextChecked ==
    /\ Done("ask") /\ Len(resp.statements) >= 1 => AskRan(1) /\ is_query_safe(AskFirst)
    /\ Done("ask") /\ Len(resp.statements) = 2 => AskRan(2) /\ is_query_safe(AskSecond)

\* C30 for the statement after the rewrites: it holds
C30_FirstTextChecked ==
    Done("ask") /\ Len(resp.statements) >= 1 => AskRan(1) /\ is_query_safe(AskFirst)

\* the repair query was built from a name inside a string literal, is_query_safe
\* turns it down, and it was handed to run_query
C30_RepairUnchecked ==
    /\ AskRan(2)
    /\ req.sql = "SELECT MIN(datetime), 'from update' FROM meter_table;"
    /\ Str(AskSecond) = "SELECT MIN(datetime), MAX(datetime) FROM update WHERE datetime GLOB '[0-9]*';"
    /\ ~is_query_safe(AskSecond)
    /\ is_query_safe(AskFirst)
====
